---- MODULE Spec2Model ----
(***************************************************************************)
(* Muushig game server: the rules engine (utils/deck), the per-room state  *)
(* (GameStateManager), the player operations (PlayerManager) and the room  *)
(* API (GameManager).  Arrays are sequences; the program's 0-based index i *)
(* is position i + 1 of the sequence.                                      *)
(***************************************************************************)
EXTENDS Integers, Sequences, FiniteSets, TLC

\* pending holds the bot decisions that are in their thinking delay
VARIABLES game, last, fp, strayCalls, pending

vars == <<game, last, fp, strayCalls, pending>>

(***************************************************************************)
(* Bounds of the model.                                                    *)
(***************************************************************************)
\* number of deck orders shuffleDeck may produce
NumShuffles == 2
\* accepted playCard calls explored in a round
MaxPlays == 3
\* cards the exchanging phase may draw from the tree in a round
MaxDrawn == 1
\* calls explored that come out of turn or in a phase that is not theirs and
\* are accepted or change the room
MaxStrayCalls == 1
\* sizes of the hands and tricks given to findPlayableCards on its own
MaxFPHand == 3
MaxFPHouse == 2

\* a score low enough for a round to finish the game
LowScore == 3

(***************************************************************************)
(* Cards (types/game.ts, utils/deck).                                      *)
(***************************************************************************)
Null == "null"

Suits == <<"hearts", "diamonds", "clubs", "spades">>

Ranks == <<"7", "8", "9", "10", "J", "Q", "K", "A">>

NumPlayers == 5

CardsPerPlayer == 5

StartScore == 15

HousesPerRound == 5

SkipTrump == -1

getCardValue(rank) ==
  CASE rank = "A" -> 14
    [] rank = "K" -> 13
    [] rank = "Q" -> 12
    [] rank = "J" -> 11
    [] rank = "10" -> 10
    [] rank = "9" -> 9
    [] rank = "8" -> 8
    [] rank = "7" -> 7
    [] OTHER -> 0

Card(suit, rank) == [suit |-> suit, rank |-> rank, value |-> getCardValue(rank)]

\* the absent card (null)
NoCard == [suit |-> Null, rank |-> Null, value |-> 0]

\* createDeck(5): for each suit, for each rank, push
createDeck ==
  [k \in 1..(Len(Suits) * Len(Ranks)) |->
     Card(Suits[((k - 1) \div Len(Ranks)) + 1], Ranks[((k - 1) % Len(Ranks)) + 1])]

\* The multipliers and offsets of the deck orders the model lets shuffleDeck
\* produce: position k of the shuffled deck holds card (a * (k-1) + b) mod 32.
ShuffleParams == <<<<5, 3>>, <<11, 6>>, <<13, 17>>, <<3, 9>>, <<7, 20>>>>

shuffleDeck(deck, n) ==
  [k \in 1..Len(deck) |->
     deck[((ShuffleParams[n][1] * (k - 1) + ShuffleParams[n][2]) % Len(deck)) + 1]]

\* dealCards that sets no trump card aside
dealCards_noTrump(deck, numPlayers) ==
  LET n == Len(deck)
      dealt == numPlayers * CardsPerPlayer
  IN [hands |-> [p \in 1..numPlayers |->
                   [r \in 1..CardsPerPlayer |-> deck[n - ((r - 1) * numPlayers + (p - 1))]]],
      trumpCard |-> NoCard,
      remainingDeck |-> IF n > dealt THEN SubSeq(deck, 1, n - dealt) ELSE <<>>]

\* dealCards: cards are popped from the end of the deck, one per player per
\* round; the next pop is the trump card; what is left is the tree.
dealCards(deck, numPlayers) ==
  LET n == Len(deck)
      dealt == numPlayers * CardsPerPlayer
  IN [hands |-> [p \in 1..numPlayers |->
                   [r \in 1..CardsPerPlayer |-> deck[n - ((r - 1) * numPlayers + (p - 1))]]],
      trumpCard |-> IF n > dealt THEN deck[n - dealt] ELSE NoCard,
      remainingDeck |-> IF n > dealt THEN SubSeq(deck, 1, n - dealt - 1) ELSE <<>>]

(***************************************************************************)
(* Helpers of the playable-cards logic.  Index lists hold 0-based indices. *)
(***************************************************************************)
Range(s) == {s[k] : k \in 1..Len(s)}

includes(s, x) == x \in Range(s)

allIndices(arr) == [k \in 1..Len(arr) |-> k - 1]

indicesWhere(arr, pred(_)) ==
  LET F[k \in 0..Len(arr)] ==
        IF k = 0 THEN <<>>
        ELSE IF pred(arr[k]) THEN Append(F[k - 1], k - 1) ELSE F[k - 1]
  IN F[Len(arr)]

hasSuit(hand, suit) == suit # Null /\ \E k \in 1..Len(hand) : hand[k].suit = suit

suitIndices(hand, suit) ==
  LET p(c) == c.suit = suit
  IN IF suit # Null THEN indicesWhere(hand, p) ELSE <<>>

\* variant: the value is not compared
higherThanInSuit_anyValue(hand, suit, minValue) == suitIndices(hand, suit)

higherThanInSuit(hand, suit, minValue) ==
  LET p(c) == c.suit = suit /\ c.value > minValue
  IN IF suit # Null THEN indicesWhere(hand, p) ELSE <<>>

\* variant: the ace is never found
firstAceIndexInSuit_absent(hand, suit) == -1

\* findIndex: the first matching index, -1 when there is none
firstAceIndexInSuit(hand, suit) ==
  LET hits == {k \in 1..Len(hand) : hand[k].suit = suit /\ hand[k].rank = "A"}
  IN IF suit # Null /\ hits # {}
       THEN (CHOOSE k \in hits : \A j \in hits : k <= j) - 1
       ELSE -1

\* Number.NEGATIVE_INFINITY for the absent card
NegInf == -1

highestValue(card) == IF card = NoCard THEN NegInf ELSE card.value

\* the first card of the greatest value among those of `suit` that are not
\* of `trumpSuit`; the absent card when there is none
findHighestCardInSuit(cards, suit, trumpSuit) ==
  LET cand == {k \in 1..Len(cards) :
                 (IF suit # Null THEN cards[k].suit = suit ELSE TRUE)
                 /\ cards[k].suit # trumpSuit}
  IN IF cand = {} THEN NoCard
     ELSE cards[CHOOSE k \in cand :
                  /\ \A j \in cand : cards[j].value <= cards[k].value
                  /\ \A j \in cand : cards[j].value = cards[k].value => k <= j]

\* variant: a hand that cannot follow may play anything
playableWhenNoLeadSuit_any(playerHand, currentHouse, trumpSuit) == allIndices(playerHand)

playableWhenNoLeadSuit(playerHand, currentHouse, trumpSuit) ==
  IF trumpSuit = Null THEN allIndices(playerHand)
  ELSE
    LET highestTrumpOnTable == findHighestCardInSuit(currentHouse, trumpSuit, Null)
        playerHasTrump == hasSuit(playerHand, trumpSuit)
    IN IF highestTrumpOnTable = NoCard
         THEN IF playerHasTrump THEN suitIndices(playerHand, trumpSuit)
                                ELSE allIndices(playerHand)
       ELSE IF playerHasTrump
         THEN LET highestTrumpInHand == findHighestCardInSuit(playerHand, trumpSuit, Null)
              IN IF highestValue(highestTrumpInHand) > highestTrumpOnTable.value
                   THEN higherThanInSuit(playerHand, trumpSuit, highestTrumpOnTable.value)
                   ELSE suitIndices(playerHand, trumpSuit)
       ELSE allIndices(playerHand)

playableWhenHasLeadSuit(playerHand, currentHouse, leadSuit, trumpSuit, allowAceShortcut) ==
  IF leadSuit = Null THEN allIndices(playerHand)
  ELSE
    LET aceIdx == firstAceIndexInSuit(playerHand, leadSuit)
    IN IF allowAceShortcut /\ aceIdx # -1 THEN <<aceIdx>>
       ELSE
         LET highestNonTrumpLead == findHighestCardInSuit(currentHouse, leadSuit, trumpSuit)
             threshold == highestValue(highestNonTrumpLead)
             canBeat == \E k \in 1..Len(playerHand) :
                          playerHand[k].suit = leadSuit /\ playerHand[k].value > threshold
         IN IF canBeat THEN higherThanInSuit(playerHand, leadSuit, threshold)
                       ELSE suitIndices(playerHand, leadSuit)

findPlayableCards(playerHand, leadSuit, trumpSuit, currentHouse, enteredPlayers) ==
  IF Len(currentHouse) = 0 THEN allIndices(playerHand)
  ELSE
    LET isLastToPlay == Len(currentHouse) = enteredPlayers - 1
        canFollowLead == hasSuit(playerHand, leadSuit)
        allowAceShortcut == Len(currentHouse) >= 1 /\ Len(currentHouse) < enteredPlayers - 1
    IN IF canFollowLead
         THEN playableWhenHasLeadSuit(playerHand, currentHouse, leadSuit, trumpSuit,
                                      allowAceShortcut /\ ~isLastToPlay)
         ELSE playableWhenNoLeadSuit(playerHand, currentHouse, trumpSuit)

\* variant: the first card of the trick always wins
findHighestCard_first(cards, trumpSuit) == IF Len(cards) = 0 THEN NoCard ELSE cards[1]

\* the highest card of a trick: a trump beats a non-trump, two cards of the
\* same class compare by value, the earlier card keeps a tie
findHighestCard(cards, trumpSuit) ==
  LET beats(card, highest) ==
        IF trumpSuit # Null /\ card.suit = trumpSuit /\ highest.suit # trumpSuit THEN TRUE
        ELSE LET bothTrump == trumpSuit # Null /\ card.suit = trumpSuit
                                /\ highest.suit = trumpSuit
                 bothNonTrump == trumpSuit = Null
                                   \/ (card.suit # trumpSuit /\ highest.suit # trumpSuit)
             IN (bothTrump \/ bothNonTrump) /\ card.value > highest.value
      H[k \in 1..Len(cards)] ==
        IF k = 1 THEN cards[1]
        ELSE IF beats(cards[k], H[k - 1]) THEN cards[k] ELSE H[k - 1]
  IN IF Len(cards) = 0 THEN NoCard ELSE H[Len(cards)]

\* calculateScore without the penalty for entering and building nothing
calculateScore_noPenalty(initialScore, housesBuilt, enteredRound) ==
  IF ~enteredRound THEN initialScore ELSE initialScore - housesBuilt

calculateScore(initialScore, housesBuilt, enteredRound) ==
  IF ~enteredRound THEN initialScore
  ELSE IF housesBuilt = 0 THEN initialScore + 5
  ELSE initialScore - housesBuilt

(***************************************************************************)
(* Room state (types/game.ts GameState, Player).                           *)
(***************************************************************************)
Undecided == "undefined"

Entered == "entered"

Declined == "declined"

\* PlayerManager.createPlayer / BotManager.createBotPlayer
createPlayer(id, isHost) ==
  [id |-> id, hand |-> <<>>, score |-> StartScore, isHost |-> isHost, isReady |-> FALSE,
   housesBuilt |-> 0, isDealer |-> FALSE, enteredRound |-> Undecided,
   hasExchanged |-> FALSE, isBot |-> FALSE]

createBotPlayer(id) ==
  [id |-> id, hand |-> <<>>, score |-> StartScore, isHost |-> FALSE, isReady |-> TRUE,
   housesBuilt |-> 0, isDealer |-> FALSE, enteredRound |-> Undecided,
   hasExchanged |-> FALSE, isBot |-> TRUE]

\* GameStateManager.createGameState followed by BotManager.fillGameWithBots
createGame ==
  [players |-> <<createPlayer(0, TRUE)>> \o [k \in 1..(NumPlayers - 1) |-> createBotPlayer(k)],
   currentPlayerIndex |-> 0,
   tree |-> <<>>,
   trumpCard |-> NoCard,
   gamePhase |-> "waiting",
   roundNumber |-> 1,
   currentHouse |-> <<>>,
   houses |-> <<>>,
   leadSuit |-> Null,
   dealerIndex |-> 0]

PlayerIds(g) == {g.players[k].id : k \in 1..Len(g.players)}

\* players.findIndex(p => p.id === playerId): 0-based, -1 when absent
findPlayerIndex(g, playerId) ==
  LET hits == {k \in 1..Len(g.players) : g.players[k].id = playerId}
  IN IF hits = {} THEN -1 ELSE (CHOOSE k \in hits : \A j \in hits : k <= j) - 1

enteredCount(g) == Cardinality({k \in 1..Len(g.players) : g.players[k].enteredRound = Entered})

trumpSuitOf(g) == IF g.trumpCard = NoCard THEN Null ELSE g.trumpCard.suit

houseCards(g) == [k \in 1..Len(g.currentHouse) |-> g.currentHouse[k].card]

Fail(g) == [ok |-> FALSE, g |-> g]

Done(g) == [ok |-> TRUE, g |-> g]

\* the first d in 1..n with ok(d), 0 when there is none
FirstStep(n, ok(_)) ==
  IF \E d \in 1..n : ok(d) THEN CHOOSE d \in 1..n : ok(d) /\ \A e \in 1..(d - 1) : ~ok(e)
  ELSE 0

(***************************************************************************)
(* GameStateManager.                                                       *)
(***************************************************************************)
initializeGameState(g, shuffle) ==
  LET n == Len(g.players)
      deal == dealCards(shuffleDeck(createDeck, shuffle), n)
      withHands == [k \in 1..n |-> [g.players[k] EXCEPT !.hand = deal.hands[k]]]
  IN [g EXCEPT !.players = [withHands EXCEPT ![g.dealerIndex + 1].isDealer = TRUE],
               !.tree = deal.remainingDeck,
               !.trumpCard = deal.trumpCard,
               !.gamePhase = "dealing",
               !.currentPlayerIndex = (g.dealerIndex + 1) % n]

\* the reset for the next round with the dealer left where it is
resetGameStateForNextRound_sameDealer(g) ==
  LET n == Len(g.players)
      cleared == [k \in 1..n |->
                    [g.players[k] EXCEPT !.hand = <<>>, !.housesBuilt = 0,
                                         !.enteredRound = Undecided, !.hasExchanged = FALSE,
                                         !.isReady = IF g.players[k].isBot
                                                       THEN g.players[k].isReady ELSE FALSE,
                                         !.isDealer = FALSE]]
  IN [g EXCEPT !.players = [cleared EXCEPT ![g.dealerIndex + 1].isDealer = TRUE],
               !.roundNumber = g.roundNumber + 1,
               !.tree = <<>>,
               !.houses = <<>>,
               !.trumpCard = NoCard,
               !.currentHouse = <<>>,
               !.leadSuit = Null,
               !.currentPlayerIndex = (g.dealerIndex + 1) % n]

resetGameStateForNextRound(g) ==
  LET n == Len(g.players)
      newDealer == (g.dealerIndex + 1) % n
      cleared == [k \in 1..n |->
                    [g.players[k] EXCEPT !.hand = <<>>, !.housesBuilt = 0,
                                         !.enteredRound = Undecided, !.hasExchanged = FALSE,
                                         !.isReady = IF g.players[k].isBot
                                                       THEN g.players[k].isReady ELSE FALSE,
                                         !.isDealer = FALSE]]
  IN [g EXCEPT !.players = [cleared EXCEPT ![newDealer + 1].isDealer = TRUE],
               !.dealerIndex = newDealer,
               !.roundNumber = g.roundNumber + 1,
               !.tree = <<>>,
               !.houses = <<>>,
               !.trumpCard = NoCard,
               !.currentHouse = <<>>,
               !.leadSuit = Null,
               !.currentPlayerIndex = (newDealer + 1) % n]

\* completeHouse that records the trick without crediting its winner
completeHouse_noCredit(g) ==
  LET cards == houseCards(g)
      highestCard == findHighestCard(cards, trumpSuitOf(g))
      hits == {k \in 1..Len(g.currentHouse) :
                 g.currentHouse[k].card.suit = highestCard.suit
                 /\ g.currentHouse[k].card.rank = highestCard.rank}
  IN IF hits = {} THEN g
     ELSE
       LET winningHouseCard == g.currentHouse[CHOOSE k \in hits : \A j \in hits : k <= j]
           w == findPlayerIndex(g, winningHouseCard.playerId)
       IN IF w = -1 THEN g
          ELSE [g EXCEPT !.houses = Append(@, [cards |-> cards,
                                               winner |-> winningHouseCard.playerId,
                                               suit |-> g.leadSuit,
                                               highestCard |-> highestCard]),
                         !.currentPlayerIndex = w]

\* the trick is recorded and its winner made the acting seat; the current
\* house itself is left as it is
completeHouse(g) ==
  LET cards == houseCards(g)
      highestCard == findHighestCard(cards, trumpSuitOf(g))
      hits == {k \in 1..Len(g.currentHouse) :
                 g.currentHouse[k].card.suit = highestCard.suit
                 /\ g.currentHouse[k].card.rank = highestCard.rank}
  IN IF hits = {} THEN g
     ELSE
       LET winningHouseCard == g.currentHouse[CHOOSE k \in hits : \A j \in hits : k <= j]
           w == findPlayerIndex(g, winningHouseCard.playerId)
       IN IF w = -1 THEN g
          ELSE [g EXCEPT !.players[w + 1].housesBuilt = @ + 1,
                         !.houses = Append(@, [cards |-> cards,
                                               winner |-> winningHouseCard.playerId,
                                               suit |-> g.leadSuit,
                                               highestCard |-> highestCard]),
                         !.currentPlayerIndex = w]

resetHouseForNextRound(g) == [g EXCEPT !.currentHouse = <<>>, !.leadSuit = Null]

\* endGame that finishes the game only on a score below zero
GSM_endGame_belowZero(g) ==
  LET n == Len(g.players)
      scored == [g EXCEPT !.players =
                   [k \in 1..n |->
                      [g.players[k] EXCEPT !.score =
                         calculateScore(g.players[k].score, g.players[k].housesBuilt,
                                        g.players[k].enteredRound = Entered)]]]
      gameFinished == \E k \in 1..n : scored.players[k].score < 0
  IN IF gameFinished THEN [scored EXCEPT !.gamePhase = "finished"]
     ELSE resetGameStateForNextRound([scored EXCEPT !.gamePhase = "waiting"])

GSM_endGame(g) ==
  LET n == Len(g.players)
      scored == [g EXCEPT !.players =
                   [k \in 1..n |->
                      [g.players[k] EXCEPT !.score =
                         calculateScore(g.players[k].score, g.players[k].housesBuilt,
                                        g.players[k].enteredRound = Entered)]]]
      gameFinished == \E k \in 1..n : scored.players[k].score <= 0
  IN IF gameFinished THEN [scored EXCEPT !.gamePhase = "finished"]
     ELSE resetGameStateForNextRound([scored EXCEPT !.gamePhase = "waiting"])

GSM_playableCards(g, playerId) ==
  LET i == findPlayerIndex(g, playerId)
  IN IF i = -1 THEN <<>>
     ELSE findPlayableCards(g.players[i + 1].hand, g.leadSuit, trumpSuitOf(g),
                            houseCards(g), enteredCount(g))

\* canPlayerDecide without its rule for two undecided seats
canPlayerDecide_lastSeatOnly(g, playerId) ==
  LET i == findPlayerIndex(g, playerId)
      n == Len(g.players)
      count(v) == Cardinality({k \in 1..n : g.players[k].enteredRound = v})
  IN IF i = -1 \/ g.players[i + 1].enteredRound # Undecided THEN FALSE
     ELSE IF count(Undecided) = 1 /\ count(Entered) = 1 THEN FALSE
     ELSE TRUE

canPlayerDecide(g, playerId) ==
  LET i == findPlayerIndex(g, playerId)
      n == Len(g.players)
      count(v) == Cardinality({k \in 1..n : g.players[k].enteredRound = v})
  IN IF i = -1 \/ g.players[i + 1].enteredRound # Undecided THEN FALSE
     ELSE IF count(Undecided) = 1 /\ count(Entered) = 1 THEN FALSE
     ELSE IF count(Undecided) <= 2 /\ count(Declined) >= n - 2 THEN FALSE
     ELSE TRUE

(***************************************************************************)
(* PlayerManager.                                                          *)
(***************************************************************************)
\* readyCheck that does not look at the phase
PM_readyCheck_anyPhase(g, playerId, isReady) ==
  LET i == findPlayerIndex(g, playerId)
  IN IF i = -1 THEN Fail(g)
     ELSE
       LET g1 == [g EXCEPT !.players[i + 1].isReady = isReady]
           allReady == \A k \in 1..Len(g1.players) : g1.players[k].isReady
       IN Done(IF allReady THEN [g1 EXCEPT !.gamePhase = "ready"] ELSE g1)

PM_readyCheck(g, playerId, isReady) ==
  LET i == findPlayerIndex(g, playerId)
  IN IF g.gamePhase # "waiting" \/ i = -1 THEN Fail(g)
     ELSE
       LET g1 == [g EXCEPT !.players[i + 1].isReady = isReady]
           allReady == \A k \in 1..Len(g1.players) : g1.players[k].isReady
       IN Done(IF allReady THEN [g1 EXCEPT !.gamePhase = "ready"] ELSE g1)

nextTurnEnter(g) ==
  [g EXCEPT !.currentPlayerIndex = (g.currentPlayerIndex + 1) % Len(g.players)]

\* the next seat after the acting one, in cyclic order, that has entered
\* (the program's loop does not end when no seat has entered: the state is
\* then left as it is)
nextTurn(g) ==
  LET n == Len(g.players)
      at(d) == ((g.currentPlayerIndex + d) % n) + 1
      ok(d) == g.players[at(d)].enteredRound = Entered
      d == FirstStep(n, ok)
  IN IF d = 0 THEN g ELSE [g EXCEPT !.currentPlayerIndex = at(d) - 1]

nextTurnExchange(g) ==
  LET n == Len(g.players)
      at(d) == ((g.currentPlayerIndex + d) % n) + 1
      ok(d) == g.players[at(d)].enteredRound = Entered /\ ~g.players[at(d)].hasExchanged
      d == FirstStep(n, ok)
  IN IF d = 0 THEN g ELSE [g EXCEPT !.currentPlayerIndex = at(d) - 1]

setNextPlayerFirstTurn(g) ==
  LET n == Len(g.players)
      at(d) == ((g.dealerIndex + d) % n) + 1
      ok(d) == g.players[at(d)].enteredRound = Entered
      d == FirstStep(n, ok)
  IN IF d = 0 THEN g ELSE [g EXCEPT !.currentPlayerIndex = at(d) - 1]

\* the step shared by enterTurn and skipTurn once the decision is stored
afterDecision(g) ==
  IF \A k \in 1..Len(g.players) : g.players[k].enteredRound # Undecided
    THEN [g EXCEPT !.gamePhase = "exchanging",
                   !.currentPlayerIndex = (g.dealerIndex + 1) % Len(g.players)]
    ELSE nextTurnEnter(g)

PM_enterTurn(g, playerId) ==
  LET i == findPlayerIndex(g, playerId)
  IN IF g.gamePhase # "dealing" \/ i = -1 THEN Fail(g)
     ELSE Done(afterDecision([g EXCEPT !.players[i + 1].enteredRound = Entered]))

PM_skipTurn(g, playerId) ==
  LET i == findPlayerIndex(g, playerId)
  IN IF g.gamePhase # "dealing" \/ i = -1 THEN Fail(g)
     ELSE Done(afterDecision([g EXCEPT !.players[i + 1].enteredRound = Declined]))

\* the first k elements of s, all of s when it is shorter
Take(s, k) == SubSeq(s, 1, IF k < Len(s) THEN k ELSE Len(s))

\* s without its first k elements
Drop(s, k) == SubSeq(s, (IF k < Len(s) THEN k ELSE Len(s)) + 1, Len(s))

\* hand.filter((_, index) => keep(index))
FilterByIndex(hand, keep(_)) ==
  LET F[k \in 0..Len(hand)] ==
        IF k = 0 THEN <<>>
        ELSE IF keep(k - 1) THEN Append(F[k - 1], hand[k]) ELSE F[k - 1]
  IN F[Len(hand)]

\* swapCards that hands out the top cards of the tree and leaves them there
swapCards_keepTree(hand, tree, cardIndices) ==
  LET inHand(i) == i >= 0 /\ i < Len(hand)
      nExchange == Cardinality({k \in 1..Len(cardIndices) : inHand(cardIndices[k])})
      newCards == Take(tree, nExchange)
      keep(i) == ~includes(cardIndices, i)
      hand1 == FilterByIndex(hand, keep) \o newCards
  IN IF Len(hand1) > CardsPerPlayer
       THEN [hand |-> Take(hand1, CardsPerPlayer), tree |-> tree]
     ELSE [hand |-> hand1, tree |-> tree]

\* swapCards on a hand and the tree: [hand, tree] afterwards
swapCards(hand, tree, cardIndices) ==
  LET inHand(i) == i >= 0 /\ i < Len(hand)
      nExchange == Cardinality({k \in 1..Len(cardIndices) : inHand(cardIndices[k])})
      newCards == Take(tree, nExchange)
      tree1 == Drop(tree, nExchange)
      keep(i) == ~includes(cardIndices, i)
      hand1 == FilterByIndex(hand, keep) \o newCards
  IN IF Len(hand1) > CardsPerPlayer
       THEN [hand |-> Take(hand1, CardsPerPlayer), tree |-> tree1]
     ELSE IF Len(hand1) < CardsPerPlayer /\ Len(tree1) > 0
       THEN [hand |-> hand1 \o Take(tree1, CardsPerPlayer - Len(hand1)),
             tree |-> Drop(tree1, CardsPerPlayer - Len(hand1))]
     ELSE [hand |-> hand1, tree |-> tree1]

\* exchangeCards that ends the phase only when every entered seat has
\* exchanged, whatever is left of the tree
PM_exchangeCards_allOnly(g, playerId, cardIndices) ==
  LET i == findPlayerIndex(g, playerId)
  IN IF g.gamePhase # "exchanging" THEN Fail(g)
     ELSE IF i = -1 \/ g.players[i + 1].enteredRound # Entered \/ Len(g.tree) = 0 THEN Fail(g)
     ELSE IF Len(cardIndices) > Len(g.tree) THEN Fail(g)
     ELSE
       LET sw == swapCards(g.players[i + 1].hand, g.tree, cardIndices)
           g1 == [g EXCEPT !.players[i + 1].hand = sw.hand,
                           !.players[i + 1].hasExchanged = TRUE,
                           !.tree = sw.tree]
           allExchanged == \A k \in 1..Len(g1.players) :
                             g1.players[k].enteredRound = Entered => g1.players[k].hasExchanged
       IN IF allExchanged
            THEN IF g1.players[g1.dealerIndex + 1].enteredRound # Entered
                   THEN Done(setNextPlayerFirstTurn([g1 EXCEPT !.gamePhase = "playing"]))
                   ELSE Done([g1 EXCEPT !.gamePhase = "trump_exchanging",
                                        !.currentPlayerIndex = g1.dealerIndex])
            ELSE Done(nextTurnExchange(g1))

PM_exchangeCards(g, playerId, cardIndices) ==
  LET i == findPlayerIndex(g, playerId)
  IN IF g.gamePhase # "exchanging" THEN Fail(g)
     ELSE IF i = -1 \/ g.players[i + 1].enteredRound # Entered \/ Len(g.tree) = 0 THEN Fail(g)
     ELSE IF Len(cardIndices) > Len(g.tree) THEN Fail(g)
     ELSE
       LET sw == swapCards(g.players[i + 1].hand, g.tree, cardIndices)
           g1 == [g EXCEPT !.players[i + 1].hand = sw.hand,
                           !.players[i + 1].hasExchanged = TRUE,
                           !.tree = sw.tree]
           allExchanged == \A k \in 1..Len(g1.players) :
                             g1.players[k].enteredRound = Entered => g1.players[k].hasExchanged
       IN IF allExchanged \/ Len(g1.tree) = 0
            THEN IF g1.players[g1.dealerIndex + 1].enteredRound # Entered
                   THEN Done(setNextPlayerFirstTurn([g1 EXCEPT !.gamePhase = "playing"]))
                   ELSE Done([g1 EXCEPT !.gamePhase = "trump_exchanging",
                                        !.currentPlayerIndex = g1.dealerIndex])
            ELSE Done(nextTurnExchange(g1))

\* exchangeTrump that any entered seat may call
PM_exchangeTrump_anySeat(g, playerId, cardIndex) ==
  LET i == findPlayerIndex(g, playerId)
  IN IF g.gamePhase # "trump_exchanging" THEN Fail(g)
     ELSE IF i = -1 \/ g.players[i + 1].enteredRound # Entered
             \/ g.trumpCard = NoCard THEN Fail(g)
     ELSE IF cardIndex = SkipTrump
       THEN Done(setNextPlayerFirstTurn(
                   [g EXCEPT !.players[i + 1].hasExchanged = TRUE, !.gamePhase = "playing"]))
     ELSE IF cardIndex < 0 \/ cardIndex >= Len(g.players[i + 1].hand) THEN Fail(g)
     ELSE Done(setNextPlayerFirstTurn(
                 [g EXCEPT !.players[i + 1].hand[cardIndex + 1] = g.trumpCard,
                           !.players[i + 1].hasExchanged = TRUE,
                           !.gamePhase = "playing"]))

PM_exchangeTrump(g, playerId, cardIndex) ==
  LET i == findPlayerIndex(g, playerId)
  IN IF g.gamePhase # "trump_exchanging" THEN Fail(g)
     ELSE IF i = -1 \/ g.players[i + 1].enteredRound # Entered
             \/ ~g.players[i + 1].isDealer \/ g.trumpCard = NoCard THEN Fail(g)
     ELSE IF cardIndex = SkipTrump
       THEN Done(setNextPlayerFirstTurn(
                   [g EXCEPT !.players[i + 1].hasExchanged = TRUE, !.gamePhase = "playing"]))
     ELSE IF cardIndex < 0 \/ cardIndex >= Len(g.players[i + 1].hand) THEN Fail(g)
     ELSE Done(setNextPlayerFirstTurn(
                 [g EXCEPT !.players[i + 1].hand[cardIndex + 1] = g.trumpCard,
                           !.players[i + 1].hasExchanged = TRUE,
                           !.gamePhase = "playing"]))

\* validateAndFixHand on a hand and the tree: [hand, tree] afterwards
validateAndFixHand(hand, tree, gamePhase) ==
  IF gamePhase # "playing" THEN [hand |-> hand, tree |-> tree]
  ELSE IF Len(hand) > CardsPerPlayer THEN [hand |-> Take(hand, CardsPerPlayer), tree |-> tree]
  ELSE IF Len(hand) < CardsPerPlayer /\ Len(tree) > 0
    THEN [hand |-> hand \o Take(tree, CardsPerPlayer - Len(hand)),
          tree |-> Drop(tree, CardsPerPlayer - Len(hand))]
  ELSE [hand |-> hand, tree |-> tree]

RemoveAt(s, k) == SubSeq(s, 1, k - 1) \o SubSeq(s, k + 1, Len(s))

\* variant: the acting seat is not compared with the caller
PM_playCard_anySeat(g, playerId, cardIndex) ==
  LET i == findPlayerIndex(g, playerId)
  IN IF g.gamePhase # "playing" THEN Fail(g)
     ELSE IF i = -1 \/ g.players[i + 1].enteredRound # Entered THEN Fail(g)
     ELSE
       LET fix == validateAndFixHand(g.players[i + 1].hand, g.tree, g.gamePhase)
           g1 == [g EXCEPT !.players[i + 1].hand = fix.hand, !.tree = fix.tree]
       IN IF cardIndex < 0 \/ cardIndex >= Len(fix.hand) THEN Fail(g1)
          ELSE
            LET card == fix.hand[cardIndex + 1]
                g2 == [g1 EXCEPT !.players[i + 1].hand = RemoveAt(fix.hand, cardIndex + 1),
                                 !.currentHouse = Append(@, [card |-> card,
                                                             playerId |-> playerId])]
            IN Done(IF Len(g2.currentHouse) = 1 THEN [g2 EXCEPT !.leadSuit = card.suit]
                                                ELSE g2)

\* playCard that takes the lead suit from every card played
PM_playCard_leadEveryCard(g, playerId, cardIndex) ==
  LET i == findPlayerIndex(g, playerId)
  IN IF g.gamePhase # "playing" THEN Fail(g)
     ELSE IF i = -1 \/ g.players[i + 1].enteredRound # Entered
             \/ g.players[g.currentPlayerIndex + 1].id # playerId THEN Fail(g)
     ELSE
       LET fix == validateAndFixHand(g.players[i + 1].hand, g.tree, g.gamePhase)
           g1 == [g EXCEPT !.players[i + 1].hand = fix.hand, !.tree = fix.tree]
       IN IF cardIndex < 0 \/ cardIndex >= Len(fix.hand) THEN Fail(g1)
          ELSE
            LET card == fix.hand[cardIndex + 1]
            IN Done([g1 EXCEPT !.players[i + 1].hand = RemoveAt(fix.hand, cardIndex + 1),
                               !.currentHouse = Append(@, [card |-> card,
                                                           playerId |-> playerId]),
                               !.leadSuit = card.suit])

PM_playCard(g, playerId, cardIndex) ==
  LET i == findPlayerIndex(g, playerId)
  IN IF g.gamePhase # "playing" THEN Fail(g)
     ELSE IF i = -1 \/ g.players[i + 1].enteredRound # Entered
             \/ g.players[g.currentPlayerIndex + 1].id # playerId THEN Fail(g)
     ELSE
       LET fix == validateAndFixHand(g.players[i + 1].hand, g.tree, g.gamePhase)
           g1 == [g EXCEPT !.players[i + 1].hand = fix.hand, !.tree = fix.tree]
       IN IF cardIndex < 0 \/ cardIndex >= Len(fix.hand) THEN Fail(g1)
          ELSE
            LET card == fix.hand[cardIndex + 1]
                g2 == [g1 EXCEPT !.players[i + 1].hand = RemoveAt(fix.hand, cardIndex + 1),
                                 !.currentHouse = Append(@, [card |-> card,
                                                             playerId |-> playerId])]
            IN Done(IF Len(g2.currentHouse) = 1 THEN [g2 EXCEPT !.leadSuit = card.suit]
                                                ELSE g2)

\* the first bot seat (1-based), 0 when the room has no bot
getBotToReplace(g) ==
  LET bots == {k \in 1..Len(g.players) : g.players[k].isBot}
  IN IF bots = {} THEN 0 ELSE CHOOSE k \in bots : \A j \in bots : k <= j

\* joinGame that does not look at the phase
PM_joinGame_anyPhase(g, newId) ==
  IF getBotToReplace(g) = 0 THEN Fail(g)
  ELSE Done([g EXCEPT !.players[getBotToReplace(g)] = createPlayer(newId, FALSE)])

PM_joinGame(g, newId) ==
  IF g.gamePhase \notin {"waiting", "ready"} THEN Fail(g)
  ELSE IF getBotToReplace(g) = 0 THEN Fail(g)
  ELSE Done([g EXCEPT !.players[getBotToReplace(g)] = createPlayer(newId, FALSE)])

PM_leaveGame(g, playerId) ==
  LET i == findPlayerIndex(g, playerId)
  IN IF g.gamePhase \notin {"waiting", "ready"} \/ i = -1 THEN Fail(g)
     ELSE Done([g EXCEPT !.players = RemoveAt(@, i + 1)])

\* with the last player removed the host reassignment fails on the empty
\* list and the call ends there
PM_removePlayer(g, playerId) ==
  LET i == findPlayerIndex(g, playerId)
  IN IF i = -1 THEN Fail(g)
     ELSE
       LET g1 == [g EXCEPT !.players = RemoveAt(@, i + 1)]
           n == Len(g1.players)
       IN IF n = 0 THEN Fail(g1)
          ELSE
            LET g2 == IF \A k \in 1..n : ~g1.players[k].isHost
                        THEN [g1 EXCEPT !.players[1].isHost = TRUE] ELSE g1
            IN Done(IF g2.currentPlayerIndex >= n
                      THEN [g2 EXCEPT !.currentPlayerIndex = 0] ELSE g2)

(***************************************************************************)
(* GameManager: the room API.                                              *)
(***************************************************************************)
\* the part of checkAndTriggerBotTurn that runs at once
checkAndTriggerBotTurn(g) ==
  IF g.gamePhase \in {"exchanging", "trump_exchanging"}
     /\ g.players[g.currentPlayerIndex + 1].enteredRound # Entered
    THEN nextTurn(g)
    ELSE g

GM_joinGame(g, newId) == PM_joinGame(g, newId)

GM_leaveGame(g, playerId) == PM_leaveGame(g, playerId)

GM_removePlayer(g, playerId) == PM_removePlayer(g, playerId)

GM_readyCheck(g, playerId, isReady) == PM_readyCheck(g, playerId, isReady)

GM_startGame(g, shuffle) ==
  IF Len(g.players) # NumPlayers \/ g.gamePhase # "ready" THEN Fail(g)
  ELSE Done(initializeGameState(g, shuffle))

GM_enterTurn(g, playerId) == PM_enterTurn(g, playerId)

\* skipTurn without the canPlayerDecide test
GM_skipTurn_unchecked(g, playerId) == PM_skipTurn(g, playerId)

GM_skipTurn(g, playerId) ==
  IF ~canPlayerDecide(g, playerId)
    THEN LET i == findPlayerIndex(g, playerId)
         IN IF i = -1 THEN Fail(g)
            ELSE Fail(nextTurn([g EXCEPT !.players[i + 1].enteredRound = Entered]))
    ELSE PM_skipTurn(g, playerId)

\* an accepted exchange is followed by checkAndTriggerBotTurn
triggerAfter(r) == IF r.ok THEN Done(checkAndTriggerBotTurn(r.g)) ELSE r

GM_exchangeCards(g, playerId, cardIndices) ==
  triggerAfter(PM_exchangeCards(g, playerId, cardIndices))

GM_exchangeTrump(g, playerId, cardIndex) ==
  triggerAfter(PM_exchangeTrump(g, playerId, cardIndex))

GM_playableCards(g, playerId) ==
  IF g.gamePhase # "playing" THEN <<>> ELSE GSM_playableCards(g, playerId)

GM_endGame(g) == GSM_endGame(g)

\* the round ends once HousesPerRound houses are complete
endIfRoundOver(g) == IF Len(g.houses) = HousesPerRound THEN GM_endGame(g) ELSE g

\* a full trick is completed, otherwise the turn moves on
houseOrTurn(g) ==
  IF Len(g.currentHouse) = enteredCount(g)
    THEN checkAndTriggerBotTurn(completeHouse(g))
    ELSE checkAndTriggerBotTurn(nextTurn(g))

\* what playCard does with the result r of PlayerManager.playCard
playCard_after(r) == IF ~r.ok THEN r ELSE Done(endIfRoundOver(houseOrTurn(r.g)))

GM_playCard(g, playerId, cardIndex) ==
  IF ~includes(GM_playableCards(g, playerId), cardIndex) THEN Fail(g)
  ELSE playCard_after(PM_playCard(g, playerId, cardIndex))

(***************************************************************************)
(* The socket handlers of a connected player.  A bot has no socket: its     *)
(* calls go from handleBotTurn straight to the GameManager methods.         *)
(***************************************************************************)
isBotId(g, playerId) ==
  LET i == findPlayerIndex(g, playerId)
  IN i # -1 /\ g.players[i + 1].isBot

\* what the enter_turn handler does with the result r of enterTurn
enter_turn_after(r) ==
  IF r.ok /\ r.g.gamePhase = "exchanging" THEN Done(checkAndTriggerBotTurn(r.g)) ELSE r

on_enter_turn(g, playerId) == enter_turn_after(GM_enterTurn(g, playerId))

\* the skip_turn handler sets the acting seat to dealerIndex + 1 as it is; past
\* the last seat the lookup of the acting player fails and the handler ends there
actFromSeatAfterDealer(g) ==
  IF g.dealerIndex + 1 >= Len(g.players) THEN [g EXCEPT !.currentPlayerIndex = g.dealerIndex + 1]
  ELSE checkAndTriggerBotTurn([g EXCEPT !.currentPlayerIndex = g.dealerIndex + 1])

skip_turn_after(r) ==
  IF r.ok /\ r.g.gamePhase = "exchanging" THEN Done(actFromSeatAfterDealer(r.g)) ELSE r

on_skip_turn(g, playerId) == skip_turn_after(GM_skipTurn(g, playerId))

exchange_cards_after(r) ==
  IF r.ok /\ r.g.gamePhase = "trump_exchanging"
    THEN Done([r.g EXCEPT !.currentPlayerIndex = r.g.dealerIndex])
    ELSE r

on_exchange_cards(g, playerId, cardIndices) ==
  exchange_cards_after(GM_exchangeCards(g, playerId, cardIndices))

enterTurnBy(g, playerId) ==
  IF isBotId(g, playerId) THEN GM_enterTurn(g, playerId) ELSE on_enter_turn(g, playerId)

skipTurnBy(g, playerId) ==
  IF isBotId(g, playerId) THEN GM_skipTurn(g, playerId) ELSE on_skip_turn(g, playerId)

exchangeCardsBy(g, playerId, cardIndices) ==
  IF isBotId(g, playerId) THEN GM_exchangeCards(g, playerId, cardIndices)
  ELSE on_exchange_cards(g, playerId, cardIndices)

(***************************************************************************)
(* The room as a state machine: one action per call.  `last` is the    *)
(* latest call that was accepted or that changed the room.                 *)
(***************************************************************************)
PhaseOf(op) ==
  CASE op = "readyCheck" -> "waiting"
    [] op = "startGame" -> "ready"
    [] op \in {"enterTurn", "skipTurn"} -> "dealing"
    [] op = "exchangeCards" -> "exchanging"
    [] op = "exchangeTrump" -> "trump_exchanging"
    [] op = "playCard" -> "playing"

\* the call comes in a phase that is not its own, or from a seat that is not
\* the acting seat
Stray(op, playerId) ==
  \/ game.gamePhase # PhaseOf(op)
  \/ /\ op \notin {"readyCheck", "startGame"}
     /\ game.players[game.currentPlayerIndex + 1].id # playerId

\* a call with result r; a rejected call that leaves the room as it was is a
\* stuttering step
Call(op, playerId, arg, r) ==
  LET stray == Stray(op, playerId)
  IN /\ r.ok \/ r.g # game
     /\ stray => strayCalls < MaxStrayCalls
     /\ game' = r.g
     /\ last' = [op |-> op, playerId |-> playerId, arg |-> arg, ok |-> r.ok]
     /\ strayCalls' = IF stray THEN strayCalls + 1 ELSE strayCalls
     /\ UNCHANGED <<fp, pending>>

\* card-index lists a caller may send to exchangeCards
ExchangeChoices == {<<>>, <<0>>, <<1, 3>>, <<5>>, <<0, 1, 2, 3, 4, 5, 6>>}

\* indices a caller may send to exchangeTrump and to playCard
TrumpChoices == {SkipTrump, 0, CardsPerPlayer}

PlayChoices == (-1)..CardsPerPlayer

TreeSize == Len(createDeck) - NumPlayers * CardsPerPlayer - 1

FPIdle == [stage |-> "idle"]

Init ==
  /\ game = createGame
  /\ last = [op |-> "createGame", playerId |-> 0, arg |-> Null, ok |-> TRUE]
  /\ fp = FPIdle
  /\ strayCalls = 0
  /\ pending = <<>>

ReadyCheck ==
  \E playerId \in {q \in PlayerIds(game) : ~game.players[findPlayerIndex(game, q) + 1].isBot},
     isReady \in BOOLEAN :
    Call("readyCheck", playerId, isReady, GM_readyCheck(game, playerId, isReady))

\* the timer readyCheck sets once the room is ready
StartGame ==
  /\ game.gamePhase = "ready"
  /\ \E shuffle \in 1..NumShuffles :
       Call("startGame", -1, shuffle, GM_startGame(game, shuffle))

EnterTurn ==
  \E playerId \in PlayerIds(game) :
    Call("enterTurn", playerId, Null, enterTurnBy(game, playerId))

SkipTurn ==
  \E playerId \in PlayerIds(game) :
    Call("skipTurn", playerId, Null, skipTurnBy(game, playerId))

\* a call that leaves at most MaxDrawn cards drawn from the tree
DrawingCall(op, playerId, arg, r) ==
  /\ TreeSize - Len(r.g.tree) <= MaxDrawn
  /\ Call(op, playerId, arg, r)

ExchangeCards ==
  \E playerId \in PlayerIds(game), cardIndices \in ExchangeChoices :
    DrawingCall("exchangeCards", playerId, cardIndices,
                exchangeCardsBy(game, playerId, cardIndices))

ExchangeTrump ==
  \E playerId \in PlayerIds(game), cardIndex \in TrumpChoices :
    Call("exchangeTrump", playerId, cardIndex, GM_exchangeTrump(game, playerId, cardIndex))

PlayCard ==
  /\ Len(game.currentHouse) < MaxPlays
  /\ \E playerId \in PlayerIds(game), cardIndex \in PlayChoices :
       Call("playCard", playerId, cardIndex, GM_playCard(game, playerId, cardIndex))

Next ==
  \/ ReadyCheck
  \/ StartGame
  \/ EnterTurn
  \/ SkipTurn
  \/ ExchangeCards
  \/ ExchangeTrump
  \/ PlayCard

Spec == Init /\ [][Next]_vars

(***************************************************************************)
(* findPlayableCards on its own: the inputs are drawn from a small deck,   *)
(* the action applies the function.                                        *)
(***************************************************************************)
FPSuits == {"hearts", "clubs", "spades"}

FPRanks == {"9", "Q", "A"}

FPCards == {Card(su, ra) : su \in FPSuits, ra \in FPRanks}

deckPos(c) == CHOOSE k \in 1..Len(createDeck) : createDeck[k] = c

\* the cards of S in deck order
InDeckOrder(S) ==
  LET F[T \in SUBSET S] ==
        IF T = {} THEN <<>>
        ELSE LET c == CHOOSE x \in T : \A y \in T : deckPos(x) <= deckPos(y)
             IN <<c>> \o F[T \ {c}]
  IN F[S]

\* the sequences of n distinct cards of S
DistinctSeqs(S, n) ==
  LET F[k \in 0..n] ==
        IF k = 0 THEN {<<>>}
        ELSE {Append(q, c) : q \in F[k - 1], c \in S} 
  IN {q \in F[n] : Cardinality(Range(q)) = n}

FPInit ==
  /\ game = createGame
  /\ last = [op |-> "createGame", playerId |-> 0, arg |-> Null, ok |-> TRUE]
  /\ strayCalls = 0
  /\ pending = <<>>
  /\ \E H \in {T \in SUBSET FPCards : Cardinality(T) <= MaxFPHand},
        n \in 1..MaxFPHouse,
        tr \in FPSuits \cup {Null},
        e \in 2..NumPlayers :
       \E house \in DistinctSeqs(FPCards \ H, n) :
         fp = [stage |-> "input", hand |-> InDeckOrder(H), house |-> house,
               trumpSuit |-> tr, enteredPlayers |-> e,
               leadSuit |-> Null, playable |-> <<>>]

\* the lead suit is the suit of the first card of the trick
FPApply ==
  /\ fp.stage = "input"
  /\ fp' = [fp EXCEPT !.stage = "output",
                      !.leadSuit = fp.house[1].suit,
                      !.playable = findPlayableCards(fp.hand, fp.house[1].suit, fp.trumpSuit,
                                                     fp.house, fp.enteredPlayers)]
  /\ UNCHANGED <<game, last, strayCalls, pending>>

FPNext == FPApply

SpecLegal == FPInit /\ [][FPNext]_vars

(***************************************************************************)
(* Properties of the legal set (SpecLegal).  In an output state fp.playable *)
(* is findPlayableCards of fp.hand against the trick fp.house.             *)
(***************************************************************************)
LegalSet == Range(fp.playable)

HandIdx(p(_)) == {k - 1 : k \in {j \in 1..Len(fp.hand) : p(fp.hand[j])}}

LeadIdx == LET p(c) == c.suit = fp.leadSuit IN HandIdx(p)

TrumpIdx == LET p(c) == fp.trumpSuit # Null /\ c.suit = fp.trumpSuit IN HandIdx(p)

AllIdx == LET p(c) == TRUE IN HandIdx(p)

LeadAceIdx == LET p(c) == c.suit = fp.leadSuit /\ c.rank = "A" IN HandIdx(p)

\* the greatest value among the cards of `suit` in the trick, -1 when none
TableMax(suit) ==
  LET vals == {fp.house[k].value : k \in {j \in 1..Len(fp.house) : fp.house[j].suit = suit}}
  IN IF vals = {} THEN -1 ELSE CHOOSE v \in vals : \A w \in vals : w <= v

AboveIdx(suit, v) == LET p(c) == c.suit = suit /\ c.value > v IN HandIdx(p)

NotLastToAct == Len(fp.house) < fp.enteredPlayers - 1

LastToAct == Len(fp.house) = fp.enteredPlayers - 1

\* C6: forced ace.  With a non-empty trick and the seat not last to act
\* (trick length < entered count - 1), a hand holding the ace of the lead suit
\* has exactly that ace's index as its legal set; when the seat is last to act
\* the ace is not forced: every lead-suit card of the hand above the trick's
\* lead-suit cards is legal.
ForcedAce ==
  (fp.stage = "output" /\ LeadAceIdx # {}) =>
    /\ NotLastToAct => fp.playable = <<CHOOSE a \in LeadAceIdx : TRUE>>
    /\ LastToAct => AboveIdx(fp.leadSuit, TableMax(fp.leadSuit)) \subseteq LegalSet

\* the ace is forced although the hand holds another lead-suit card above the trick's
ForcedAceWitness ==
  /\ fp.stage = "output"
  /\ NotLastToAct
  /\ LeadAceIdx # {}
  /\ Cardinality(AboveIdx(fp.leadSuit, TableMax(fp.leadSuit))) >= 2
  /\ Len(fp.playable) = 1

\* C7: must follow, must beat.  For every lead suit, the trump suit included,
\* when the hand holds a lead-suit card and the forced-ace rule does not apply,
\* the legal set is the hand's lead-suit cards above the highest lead-suit card
\* of the trick when there is one, and all the hand's lead-suit cards otherwise.
MustFollowMustBeat ==
  (fp.stage = "output" /\ LeadIdx # {} /\ ~(NotLastToAct /\ LeadAceIdx # {})) =>
    LET higher == AboveIdx(fp.leadSuit, TableMax(fp.leadSuit))
    IN /\ LegalSet = IF higher # {} THEN higher ELSE LeadIdx
       /\ Len(fp.playable) = Cardinality(LegalSet)

\* C8: first trump.  When the hand holds no lead-suit card, a trump suit is
\* defined and the trick holds no trump, the legal set is the hand's trump
\* cards when it holds one and the whole hand otherwise.
FirstTrump ==
  (/\ fp.stage = "output"
   /\ LeadIdx = {}
   /\ fp.trumpSuit # Null
   /\ \A k \in 1..Len(fp.house) : fp.house[k].suit # fp.trumpSuit) =>
    /\ LegalSet = IF TrumpIdx # {} THEN TrumpIdx ELSE AllIdx
    /\ Len(fp.playable) = Cardinality(LegalSet)

\* a hand without the lead suit holding a trump and another card: only the trump is legal
FirstTrumpWitness ==
  /\ fp.stage = "output"
  /\ LeadIdx = {}
  /\ fp.trumpSuit # Null
  /\ \A k \in 1..Len(fp.house) : fp.house[k].suit # fp.trumpSuit
  /\ TrumpIdx # {}
  /\ TrumpIdx # AllIdx
  /\ LegalSet = TrumpIdx

\* C9: overtrump.  When the hand holds no lead-suit card and the trick holds a
\* trump, with V the highest trump value of the trick, the legal set is the
\* hand's trumps above V when there is one, else all its trumps when it holds
\* one, else the whole hand.
Overtrump ==
  (/\ fp.stage = "output"
   /\ LeadIdx = {}
   /\ fp.trumpSuit # Null
   /\ \E k \in 1..Len(fp.house) : fp.house[k].suit = fp.trumpSuit) =>
    LET higher == AboveIdx(fp.trumpSuit, TableMax(fp.trumpSuit))
    IN /\ LegalSet = IF higher # {} THEN higher
                     ELSE IF TrumpIdx # {} THEN TrumpIdx ELSE AllIdx
       /\ Len(fp.playable) = Cardinality(LegalSet)

\* trumps above and below the trick's trump in a hand without the lead suit:
\* only the higher one is legal
OvertrumpWitness ==
  /\ fp.stage = "output"
  /\ LeadIdx = {}
  /\ fp.trumpSuit # Null
  /\ \E k \in 1..Len(fp.house) : fp.house[k].suit = fp.trumpSuit
  /\ AboveIdx(fp.trumpSuit, TableMax(fp.trumpSuit)) # {}
  /\ AboveIdx(fp.trumpSuit, TableMax(fp.trumpSuit)) # TrumpIdx
  /\ LegalSet = AboveIdx(fp.trumpSuit, TableMax(fp.trumpSuit))

(***************************************************************************)
(* Properties of the room (Spec).                                          *)
(***************************************************************************)
ActingId == game.players[game.currentPlayerIndex + 1].id

Dealt == game.gamePhase \in {"dealing", "exchanging", "trump_exchanging", "playing"}

HandOf(s) == game.players[findPlayerIndex(game, s) + 1].hand

\* every place a card can be in, laid end to end
CardPlaces ==
  LET H[k \in 0..Len(game.players)] ==
        IF k = 0 THEN <<>> ELSE H[k - 1] \o game.players[k].hand
      T[k \in 0..Len(game.houses)] ==
        IF k = 0 THEN <<>> ELSE T[k - 1] \o game.houses[k].cards
  IN H[Len(game.players)] \o game.tree
       \o (IF game.trumpCard = NoCard THEN <<>> ELSE <<game.trumpCard>>)
       \o houseCards(game) \o T[Len(game.houses)]

\* C1: card conservation.  From the deal on, the hands, the tree, the trump
\* card, the current house and the completed houses together hold every card
\* of the 32-card deck exactly once.
CardConservation ==
  Dealt =>
    \A c \in Range(createDeck) :
      Cardinality({k \in 1..Len(CardPlaces) : CardPlaces[k] = c}) = 1

WrongPhaseRejected ==
  \A s \in PlayerIds(game) :
    /\ game.gamePhase # "waiting" =>
         \A b \in BOOLEAN : GM_readyCheck(game, s, b) = Fail(game)
    /\ game.gamePhase # "dealing" =>
         GM_enterTurn(game, s) = Fail(game) /\ GM_skipTurn(game, s) = Fail(game)
    /\ game.gamePhase # "exchanging" =>
         \A x \in ExchangeChoices : GM_exchangeCards(game, s, x) = Fail(game)
    /\ game.gamePhase # "trump_exchanging" =>
         \A i \in TrumpChoices : GM_exchangeTrump(game, s, i) = Fail(game)
    /\ game.gamePhase # "playing" =>
         \A i \in PlayChoices : GM_playCard(game, s, i) = Fail(game)

\* C4: wrong-seat rejection.  An entry decision, a card exchange, a trump
\* exchange or a play by a seat that is not the acting seat returns failure and
\* leaves the room as it was.
WrongSeatRejected ==
  \A s \in PlayerIds(game) \ {ActingId} :
    /\ GM_enterTurn(game, s) = Fail(game)
    /\ GM_skipTurn(game, s) = Fail(game)
    /\ \A x \in ExchangeChoices : GM_exchangeCards(game, s, x) = Fail(game)
    /\ \A i \in TrumpChoices : GM_exchangeTrump(game, s, i) = Fail(game)
    /\ \A i \in PlayChoices : GM_playCard(game, s, i) = Fail(game)

\* C5: out-of-bounds rejection.  A play, a card exchange (any index of the
\* list) or a trump exchange (other than the skip value) with an index outside
\* the caller's hand returns failure and leaves the hands, the tree, the trump
\* card, the phase and the acting seat as they were.
OutOfBoundsRejected ==
  \A s \in PlayerIds(game) :
    LET outside(i) == i < 0 \/ i >= Len(HandOf(s))
        rejected(r) ==
          /\ ~r.ok
          /\ \A k \in 1..Len(game.players) : r.g.players[k].hand = game.players[k].hand
          /\ r.g.tree = game.tree
          /\ r.g.trumpCard = game.trumpCard
          /\ r.g.gamePhase = game.gamePhase
          /\ r.g.currentPlayerIndex = game.currentPlayerIndex
    IN /\ \A i \in PlayChoices : outside(i) => rejected(GM_playCard(game, s, i))
       /\ \A x \in ExchangeChoices :
            (\E k \in 1..Len(x) : outside(x[k])) => rejected(GM_exchangeCards(game, s, x))
       /\ \A i \in TrumpChoices \ {SkipTrump} :
            outside(i) => rejected(GM_exchangeTrump(game, s, i))

\* card a outranks card b: a trump over a non-trump, otherwise by value within
\* the same class
Outranks(a, b) ==
  LET t == trumpSuitOf(game)
      isTrump(c) == t # Null /\ c.suit = t
  IN \/ isTrump(a) /\ ~isTrump(b)
     \/ isTrump(a) = isTrump(b) /\ a.value > b.value

DecisionCount(v) == Cardinality({k \in 1..Len(game.players) : game.players[k].enteredRound = v})

\* the seat may not decline: it is the last undecided seat with one seat
\* entered, or one of at most two undecided seats with all others but two declined
MustEnter(k) ==
  /\ game.players[k].enteredRound = Undecided
  /\ \/ DecisionCount(Undecided) = 1 /\ DecisionCount(Entered) = 1
     \/ DecisionCount(Undecided) <= 2 /\ DecisionCount(Declined) >= NumPlayers - 2

\* C12: during dealing, skipTurn by an undecided seat that is the last
\* undecided one with exactly one seat entered, or one of at most two
\* undecided ones with at least NumPlayers - 2 seats declined, is rejected and
\* leaves that seat entered
AutoEntryOverride ==
  game.gamePhase = "dealing" =>
    \A k \in 1..Len(game.players) :
      MustEnter(k) =>
        LET r == GM_skipTurn(game, game.players[k].id)
        IN /\ ~r.ok
           /\ r.g.players[k].enteredRound = Entered

\* three seats declined in turn and the fourth, asked to decline, was entered
AutoEntryOverrideWitness ==
  /\ game.gamePhase = "dealing"
  /\ strayCalls = 0
  /\ pending = <<>>
  /\ last.op = "skipTurn" /\ ~last.ok
  /\ DecisionCount(Declined) = NumPlayers - 2
  /\ DecisionCount(Undecided) = 1
  /\ game.players[findPlayerIndex(game, last.playerId) + 1].enteredRound = Entered

RoundUnderWay == game.gamePhase \in {"exchanging", "trump_exchanging", "playing"}

DecisionMadeOnce ==
  [][\/ game'.roundNumber # game.roundNumber
     \/ \A k \in 1..Len(game.players) :
          game.players[k].enteredRound # Undecided
            => game'.players[k].enteredRound = game.players[k].enteredRound]_vars

\* C15: whenever the phase is exchanging, trump_exchanging or playing, the
\* acting seat (currentPlayerIndex) has entered the round
ActiveSeatEntered ==
  RoundUnderWay => game.players[game.currentPlayerIndex + 1].enteredRound = Entered

(***************************************************************************)
(* The dealer.                                                             *)
(***************************************************************************)
DealerSeats == {k \in 1..Len(game.players) : game.players[k].isDealer}

\* C16: in every state of a room, from its creation on, exactly one seat
\* has isDealer = true
ExactlyOneDealer == Cardinality(DealerSeats) = 1

(***************************************************************************)
(* Houses and the lead suit.                                               *)
(***************************************************************************)
RECURSIVE SumHousesBuilt(_, _)
SumHousesBuilt(players, k) ==
  IF k = 0 THEN 0 ELSE players[k].housesBuilt + SumHousesBuilt(players, k - 1)

LeadSuitDefined ==
  /\ game.leadSuit # Null <=> Len(game.currentHouse) > 0
  /\ game.leadSuit # Null => game.leadSuit = game.currentHouse[1].card.suit

\* a card of another suit has just been played onto the led card
LeadSuitDefinedWitness ==
  /\ last.op = "playCard" /\ last.ok
  /\ Len(game.currentHouse) >= 2
  /\ game.currentHouse[Len(game.currentHouse)].card.suit # game.currentHouse[1].card.suit
  /\ game.leadSuit = game.currentHouse[1].card.suit

(***************************************************************************)
(* The end of a round: endGame applied to rooms that hold HousesPerRound   *)
(* completed houses, followed by the way into the next round.              *)
(***************************************************************************)
\* the seat (1-based) that won house h when the seats won hb[1], hb[2], ...
\* houses in seat order
RECURSIVE HouseWinner(_, _, _)
HouseWinner(hb, h, k) ==
  IF h <= hb[k] THEN k ELSE HouseWinner(hb, h - hb[k], k + 1)

\* a room in phase playing whose fifth house has just been completed
RoundEndRoom(dealer, entered, hb, low) ==
  LET seat(k) == [createGame.players[k] EXCEPT
                    !.score = IF k = low THEN LowScore ELSE StartScore,
                    !.isReady = TRUE,
                    !.housesBuilt = hb[k],
                    !.isDealer = (k = dealer + 1),
                    !.enteredRound = IF k \in entered THEN Entered ELSE Declined,
                    !.hasExchanged = (k \in entered)]
      players == [k \in 1..NumPlayers |-> seat(k)]
  IN [createGame EXCEPT
        !.players = players,
        !.dealerIndex = dealer,
        !.gamePhase = "playing",
        !.trumpCard = createDeck[Len(createDeck)],
        !.tree = <<createDeck[1]>>,
        !.houses = [h \in 1..HousesPerRound |->
                      [cards |-> <<>>,
                       winner |-> players[HouseWinner(hb, h, 1)].id,
                       suit |-> Null,
                       highestCard |-> NoCard]],
        !.currentPlayerIndex = HouseWinner(hb, HousesPerRound, 1) - 1]

RoundEndInit ==
  /\ \E dealer \in 0..(NumPlayers - 1), low \in 0..NumPlayers :
     \E entered \in {E \in SUBSET (1..NumPlayers) : Cardinality(E) >= 2} :
     \E hb \in [1..NumPlayers -> 0..HousesPerRound] :
       /\ \A k \in 1..NumPlayers : hb[k] > 0 => k \in entered
       /\ SumHousesBuilt([k \in 1..NumPlayers |-> [housesBuilt |-> hb[k]]], NumPlayers)
            = HousesPerRound
       /\ game = RoundEndRoom(dealer, entered, hb, low)
  /\ last = [op |-> "playCard", playerId |-> game.players[game.currentPlayerIndex + 1].id,
             arg |-> 0, ok |-> TRUE]
  /\ fp = FPIdle
  /\ strayCalls = 0
  /\ pending = <<>>

\* the last step of playCard once five houses are complete
EndGame ==
  /\ game.gamePhase = "playing"
  /\ Len(game.houses) = HousesPerRound
  /\ game' = GM_endGame(game)
  /\ last' = [op |-> "endGame", playerId |-> -1, arg |-> Null, ok |-> TRUE]
  /\ UNCHANGED <<fp, strayCalls, pending>>

RoundEndNext ==
  \/ EndGame
  \/ ReadyCheck
  \/ StartGame

SpecRoundEnd == RoundEndInit /\ [][RoundEndNext]_vars

\* C11: at round end a seat's score changes by +5 if it entered and built no
\* house, by -k if it entered and built k > 0 houses, and not at all if it did
\* not enter; every seat of a new room has score StartScore
ScoringDeterminism ==
  [][/\ \A k \in 1..Len(createGame.players) : createGame.players[k].score = StartScore
     /\ last'.op = "endGame" =>
          \A k \in 1..Len(game.players) :
            LET p == game.players[k]
                delta == game'.players[k].score - p.score
            IN /\ (p.enteredRound = Entered /\ p.housesBuilt = 0) => delta = 5
               /\ (p.enteredRound = Entered /\ p.housesBuilt > 0) => delta = -p.housesBuilt
               /\ p.enteredRound # Entered => delta = 0]_vars

\* a round has ended with one seat penalised, one seat credited two houses
\* and one seat, which had declined, left at its score
ScoringDeterminismWitness ==
  /\ last.op = "endGame"
  /\ game.gamePhase = "waiting"
  /\ game.players[1].score = StartScore + 5
  /\ game.players[2].score = StartScore - 2
  /\ game.players[3].score = StartScore - 3
  /\ game.players[4].score = StartScore
  /\ game.players[5].score = LowScore

\* C17: a round end that does not finish the game moves dealerIndex to
\* (dealerIndex + 1) mod NumPlayers, no other step changes dealerIndex, and
\* dealing starts with the seat after the dealer as the acting seat
DealerRotation ==
  [][/\ IF last'.op = "endGame" /\ game'.gamePhase # "finished"
          THEN game'.dealerIndex = (game.dealerIndex + 1) % NumPlayers
          ELSE game'.dealerIndex = game.dealerIndex
     /\ (game.gamePhase # "dealing" /\ game'.gamePhase = "dealing")
          => game'.currentPlayerIndex = (game'.dealerIndex + 1) % NumPlayers]_vars

\* the second round has been dealt with the last seat as dealer and the
\* first seat to act
DealerRotationWitness ==
  /\ game.gamePhase = "dealing"
  /\ game.roundNumber = 2
  /\ game.dealerIndex = NumPlayers - 1
  /\ game.currentPlayerIndex = 0
  /\ game.players[NumPlayers].isDealer

(***************************************************************************)
(* The seats of a room: players joining, leaving and disconnecting around  *)
(* the start of a game.                                                    *)
(***************************************************************************)
HumanIds(g) == {q \in PlayerIds(g) : ~isBotId(g, q)}

\* the id of the next player to join: each join so far has replaced one of
\* the NumPlayers - 1 bots of the new room, and no bot is ever added back
FreshId(g) ==
  2 * NumPlayers - 1 - Cardinality({k \in 1..Len(g.players) : g.players[k].isBot})

\* a call on the seats of the room, with result r
SeatCall(op, playerId, r) ==
  /\ r.ok \/ r.g # game
  /\ game' = r.g
  /\ last' = [op |-> op, playerId |-> playerId, arg |-> Null, ok |-> r.ok]
  /\ UNCHANGED <<fp, strayCalls, pending>>

JoinGame == SeatCall("joinGame", FreshId(game), GM_joinGame(game, FreshId(game)))

LeaveGame ==
  \E playerId \in HumanIds(game) :
    SeatCall("leaveGame", playerId, GM_leaveGame(game, playerId))

\* a player's socket disconnects
RemovePlayer ==
  \E playerId \in HumanIds(game) :
    SeatCall("removePlayer", playerId, GM_removePlayer(game, playerId))

SeatsNext ==
  \/ JoinGame
  \/ LeaveGame
  \/ RemovePlayer
  \/ ReadyCheck
  \/ StartGame

SpecSeats == Init /\ [][SeatsNext]_vars

\* C20: a room has exactly NumPlayers seats after its creation and through
\* every join, leave, disconnect and game action
FixedTableSize == Len(game.players) = NumPlayers

\* C21: joinGame succeeds exactly when the phase is waiting or ready and some
\* seat is a bot; the new player then takes the seat of a bot and every other
\* seat and the seat count stay as they were; a rejected join changes nothing
JoinContract ==
  LET r == GM_joinGame(game, FreshId(game))
      b == getBotToReplace(game)
  IN /\ r.ok <=> (game.gamePhase \in {"waiting", "ready"} /\ b # 0)
     /\ r.ok =>
          /\ Len(r.g.players) = Len(game.players)
          /\ game.players[b].isBot
          /\ r.g.players[b].id = FreshId(game) /\ ~r.g.players[b].isBot
          /\ \A k \in 1..Len(game.players) : k # b => r.g.players[k] = game.players[k]
     /\ ~r.ok => r.g = game

\* a second player has joined and sits in the second bot seat of the new room
JoinContractWitness ==
  /\ last.op = "joinGame" /\ last.ok
  /\ Len(game.players) = NumPlayers
  /\ game.players[3].id = last.playerId
  /\ ~game.players[2].isBot /\ ~game.players[3].isBot
  /\ game.players[4].isBot

(***************************************************************************)
(* BotManager: the decisions of a bot seat k (1-based) in a room g.  The   *)
(* random draws of the code are parameters or a set of possible results.   *)
(***************************************************************************)
botPlayable(g, k) ==
  findPlayableCards(g.players[k].hand, g.leadSuit, trumpSuitOf(g), houseCards(g),
                    enteredCount(g))

\* a bot that picks among all the cards of its hand
decideCardToPlay_anyCard(g, k) ==
  IF Len(g.players[k].hand) = 0 THEN {-1} ELSE Range(allIndices(g.players[k].hand))

\* the indices decideCardToPlay may return
decideCardToPlay(g, k) ==
  IF Len(g.players[k].hand) = 0 \/ Len(botPlayable(g, k)) = 0 THEN {-1}
  ELSE Range(botPlayable(g, k))

\* orders in which the shuffle of decideExchange may leave the hand indices
BotOrders(n) == {[k \in 1..n |-> k - 1], [k \in 1..n |-> n - k]}

maxExchange(g) == IF CardsPerPlayer < Len(g.tree) THEN CardsPerPlayer ELSE Len(g.tree)

\* decideExchange when the draw is numToExchange and the shuffle gives order
decideExchange(g, k, numToExchange, order) ==
  IF Len(g.tree) = 0 \/ numToExchange = 0 THEN <<>> ELSE Take(order, numToExchange)

\* the index (0-based) of the first card of least value among those at idx
lowestIndex(hand, idx) ==
  (CHOOSE i \in idx : /\ \A j \in idx : hand[i].value <= hand[j].value
                      /\ \A j \in idx : hand[j].value = hand[i].value => i <= j) - 1

decideTrumpExchange(g, k) ==
  LET hand == g.players[k].hand
      nonTrump == {i \in 1..Len(hand) : hand[i].suit # g.trumpCard.suit}
  IN IF Len(hand) = 0 \/ g.trumpCard = NoCard THEN -1
     ELSE IF nonTrump = {} THEN lowestIndex(hand, 1..Len(hand))
     ELSE lowestIndex(hand, nonTrump)

BotSeats == {k \in 1..Len(game.players) : game.players[k].isBot}

\* C22: a card index a bot decides to play is in the legal set of its seat
\* in the state the play is applied to; a bot exchange asks for at most as
\* many cards as the tree holds; a bot trump exchange names a card of its hand
\* or the skip value
BotLegality ==
  \A k \in BotSeats :
    /\ game.gamePhase = "playing" =>
         \A c \in decideCardToPlay(game, k) :
           c >= 0 => includes(GM_playableCards(game, game.players[k].id), c)
    /\ \A numToExchange \in 0..maxExchange(game) :
         \A order \in BotOrders(Len(game.players[k].hand)) :
           Len(decideExchange(game, k, numToExchange, order)) <= Len(game.tree)
    /\ LET t == decideTrumpExchange(game, k)
       IN t = SkipTrump \/ (0 <= t /\ t < Len(game.players[k].hand))

\* a bot is to play, may not play every card of its hand, and would swap a
\* card other than its first for the trump card
BotLegalityWitness ==
  /\ game.gamePhase = "playing"
  /\ game.currentPlayerIndex + 1 \in BotSeats
  /\ Len(game.currentHouse) >= 1
  /\ decideCardToPlay(game, game.currentPlayerIndex + 1) # {-1}
  /\ decideCardToPlay(game, game.currentPlayerIndex + 1)
       # Range(allIndices(game.players[game.currentPlayerIndex + 1].hand))
  /\ decideTrumpExchange(game, game.currentPlayerIndex + 1) > 0
  /\ Len(game.tree) > 0

(***************************************************************************)
(* Bot turns.  checkAndTriggerBotTurn starts handleBotTurn when the seat   *)
(* it found acting is a bot; handleBotTurn picks the decision from the     *)
(* phase, waits out the thinking delay of makeBotDecision and then calls   *)
(* the room API.  The delay is the same for every decision, so pending     *)
(* decisions are applied in the order they were started.                   *)
(***************************************************************************)
\* the most players that join a room in which the bot turns are followed
MaxHumans == 2

BotPhases == {"dealing", "exchanging", "trump_exchanging", "playing"}

\* handleBotTurn up to the thinking delay: the decision it leaves pending
handleBotTurn(g) ==
  IF g.players[g.currentPlayerIndex + 1].isBot /\ g.gamePhase \in BotPhases
    THEN <<[botId |-> g.players[g.currentPlayerIndex + 1].id, phase |-> g.gamePhase]>>
    ELSE <<>>

\* the decisions a call of checkAndTriggerBotTurn on g leaves pending
triggered(g) ==
  IF g.currentPlayerIndex < Len(g.players) /\ g.players[g.currentPlayerIndex + 1].isBot
    THEN handleBotTurn(checkAndTriggerBotTurn(g))
    ELSE <<>>

\* the start_game handler: only the host may start, then the bot turn is triggered
on_start_game(g, playerId, shuffle) ==
  LET i == findPlayerIndex(g, playerId)
  IN IF i = -1 \/ ~g.players[i + 1].isHost THEN Fail(g) ELSE GM_startGame(g, shuffle)

\* decisions left pending by a handler that triggers the bot turn on r.g
\* when the call was accepted and the phase is one of phases
triggeredAfter(r, phases) ==
  IF r.ok /\ r.g.gamePhase \in phases THEN triggered(r.g) ELSE <<>>

\* the room as the skip_turn handler leaves it before it triggers the bot turn
seatAfterDealerActs(r) ==
  [r EXCEPT !.g.currentPlayerIndex = r.g.dealerIndex + 1]

\* the room after an accepted card, before the bot turn is triggered
afterCard(g) ==
  IF Len(g.currentHouse) = enteredCount(g) THEN completeHouse(g) ELSE nextTurn(g)

\* a room API call of a bot whose PlayerManager part gave r0
botCall(op, r0) ==
  [op |-> op, r |-> triggerAfter(r0), sched |-> triggeredAfter(r0, BotPhases)]

\* the card play of a bot that decided for cardIndex
botPlay(g, playerId, cardIndex) ==
  IF cardIndex < 0 THEN [op |-> "playCard", r |-> Fail(g), sched |-> <<>>]
  ELSE [op |-> "playCard", r |-> GM_playCard(g, playerId, cardIndex),
        sched |-> IF includes(GM_playableCards(g, playerId), cardIndex)
                    THEN triggeredAfter(
                           [ok |-> PM_playCard(g, playerId, cardIndex).ok,
                            g |-> afterCard(PM_playCard(g, playerId, cardIndex).g)],
                           BotPhases)
                    ELSE <<>>]

\* what the pending decision d may do once its delay is over; the handler
\* was chosen from the phase at the start of the delay and calls the room
\* API for its bot whatever the room looks like by now
handleBotDecision(g, d) ==
  LET k == findPlayerIndex(g, d.botId) + 1
  IN CASE d.phase = "dealing" ->
            {[op |-> "enterTurn", r |-> GM_enterTurn(g, d.botId), sched |-> <<>>],
             [op |-> "skipTurn", r |-> GM_skipTurn(g, d.botId), sched |-> <<>>]}
       [] d.phase = "exchanging" ->
            {botCall("exchangeCards",
                     PM_exchangeCards(g, d.botId, decideExchange(g, k, numToExchange, order))) :
               numToExchange \in 0..maxExchange(g),
               order \in BotOrders(Len(g.players[k].hand))}
       [] d.phase = "trump_exchanging" ->
            {botCall("exchangeTrump",
                     PM_exchangeTrump(g, d.botId, decideTrumpExchange(g, k)))}
       [] OTHER ->
            {botPlay(g, d.botId, cardIndex) : cardIndex \in decideCardToPlay(g, k)}

\* a call of a connected player with result r that leaves sched pending
HandlerCall(op, playerId, arg, r, sched) ==
  /\ r.ok \/ r.g # game
  /\ game' = r.g
  /\ last' = [op |-> op, playerId |-> playerId, arg |-> arg, ok |-> r.ok]
  /\ pending' = pending \o sched
  /\ UNCHANGED <<fp, strayCalls>>

HostStartGame ==
  \E playerId \in HumanIds(game), shuffle \in 1..NumShuffles :
    HandlerCall("startGame", playerId, shuffle, on_start_game(game, playerId, shuffle),
                triggeredAfter(on_start_game(game, playerId, shuffle), {"dealing"}))

HumanEnterTurn ==
  \E playerId \in HumanIds(game) :
    HandlerCall("enterTurn", playerId, Null, on_enter_turn(game, playerId),
                triggeredAfter(GM_enterTurn(game, playerId), {"exchanging"}))

HumanSkipTurn ==
  \E playerId \in HumanIds(game) :
    HandlerCall("skipTurn", playerId, Null, on_skip_turn(game, playerId),
                triggeredAfter(seatAfterDealerActs(GM_skipTurn(game, playerId)),
                               {"exchanging"}))

\* the thinking delay of the oldest pending decision is over
BotDecision ==
  /\ pending # <<>>
  /\ \E o \in handleBotDecision(game, Head(pending)) :
       /\ game' = o.r.g
       /\ last' = [op |-> o.op, playerId |-> Head(pending).botId, arg |-> Null,
                   ok |-> o.r.ok]
       /\ pending' = Tail(pending) \o o.sched
       /\ UNCHANGED <<fp, strayCalls>>

\* a player takes the seat of a bot while more than one bot would remain
BotsJoinGame ==
  /\ Cardinality(HumanIds(game)) < MaxHumans
  /\ JoinGame

BotsNext ==
  \/ ReadyCheck
  \/ BotsJoinGame
  \/ StartGame
  \/ HostStartGame
  \/ HumanEnterTurn
  \/ HumanSkipTurn
  \/ BotDecision

SpecBots == Init /\ [][BotsNext]_vars

\* the pending decision that is applied next was started in another phase
\* or for a seat that is no longer the acting one
StaleDecision ==
  /\ pending # <<>>
  /\ \/ game.gamePhase # Head(pending).phase
     \/ game.currentPlayerIndex >= Len(game.players)
     \/ game.players[game.currentPlayerIndex + 1].id # Head(pending).botId

\* C23: a bot decision that is applied when the phase is no longer the phase
\* it was started in, or when its bot is no longer the acting seat, is
\* discarded: the step that applies it leaves the room as it was
StaleDecisionDiscarded ==
  [][(StaleDecision /\ pending' = Tail(pending)) => game' = game]_vars

(***************************************************************************)
(* The order of the phases.                                                *)
(***************************************************************************)
PhaseEdges ==
  {<<"waiting", "ready">>, <<"ready", "dealing">>, <<"dealing", "exchanging">>,
   <<"exchanging", "trump_exchanging">>, <<"exchanging", "playing">>,
   <<"trump_exchanging", "playing">>, <<"playing", "waiting">>,
   <<"playing", "finished">>}

\* C24: a step that changes the phase of the room moves it along one of the
\* edges waiting -> ready -> dealing -> exchanging -> (trump_exchanging ->)
\* playing -> waiting or finished
PhaseOrder ==
  [][game'.gamePhase # game.gamePhase
       => <<game.gamePhase, game'.gamePhase>> \in PhaseEdges]_vars

\* the room is playing after the dealer's trump exchange
PhaseOrderWitness ==
  /\ game.gamePhase = "playing"
  /\ last.op = "exchangeTrump"
  /\ last.ok
  /\ last.playerId = game.players[game.dealerIndex + 1].id

(***************************************************************************)
(* The outcome of a round.                                                 *)
(***************************************************************************)
\* the room g is as a new round needs it
ClearedForNextRound(g) ==
  /\ \A k \in 1..Len(g.players) :
       /\ g.players[k].hand = <<>>
       /\ g.players[k].housesBuilt = 0
       /\ g.players[k].enteredRound = Undecided
       /\ g.players[k].hasExchanged = FALSE
  /\ g.houses = <<>>
  /\ g.currentHouse = <<>>
  /\ g.tree = <<>>
  /\ g.trumpCard = NoCard

\* C25: when a round ends the phase becomes finished if and only if some
\* seat's score after scoring is at most 0; otherwise the phase becomes
\* waiting, hands, houses built, entry decisions, exchange marks, completed
\* houses, current house, tree and trump card are cleared and the round
\* number grows by exactly 1
RoundEndOutcome ==
  [][last'.op = "endGame" =>
       /\ game'.gamePhase = "finished"
            <=> \E k \in 1..Len(game'.players) : game'.players[k].score <= 0
       /\ game'.gamePhase # "finished" =>
            /\ game'.gamePhase = "waiting"
            /\ ClearedForNextRound(game')
            /\ game'.roundNumber = game.roundNumber + 1]_vars

\* a round has ended the game with a seat at exactly 0
RoundEndOutcomeWitness ==
  /\ last.op = "endGame"
  /\ game.gamePhase = "finished"
  /\ \E k \in 1..Len(game.players) : game.players[k].score = 0
  /\ \A k \in 1..Len(game.players) : game.players[k].score >= 0

(***************************************************************************)
(* The finished room.                                                      *)
(***************************************************************************)
\* the room g has the phase, the scores and the round state of every seat
\* that the room has now
SameRoundState(g) ==
  /\ g.gamePhase = game.gamePhase
  /\ Len(g.players) = Len(game.players)
  /\ \A k \in 1..Len(game.players) :
       /\ g.players[k].score = game.players[k].score
       /\ g.players[k].enteredRound = game.players[k].enteredRound
       /\ g.players[k].hasExchanged = game.players[k].hasExchanged
       /\ g.players[k].housesBuilt = game.players[k].housesBuilt
       /\ g.players[k].hand = game.players[k].hand

\* no call but an entry decision changes a finished room
FinishedRejectsOtherCalls ==
  game.gamePhase = "finished" =>
    /\ SameRoundState(GM_joinGame(game, FreshId(game)).g)
    /\ \A playerId \in PlayerIds(game) :
         /\ \A isReady \in BOOLEAN : SameRoundState(GM_readyCheck(game, playerId, isReady).g)
         /\ \A cardIndices \in ExchangeChoices :
              SameRoundState(exchangeCardsBy(game, playerId, cardIndices).g)
         /\ \A cardIndex \in TrumpChoices :
              SameRoundState(GM_exchangeTrump(game, playerId, cardIndex).g)
         /\ \A cardIndex \in PlayChoices :
              SameRoundState(GM_playCard(game, playerId, cardIndex).g)

joined(g, k) ==
  LET F[j \in 0..k] == IF j = 0 THEN g ELSE GM_joinGame(F[j - 1], FreshId(F[j - 1])).g
  IN F[k]

\* the room after the players of the first k seats of g have said they are ready
allReady(g, k) ==
  LET F[j \in 0..k] == IF j = 0 THEN g ELSE GM_readyCheck(F[j - 1], g.players[j].id, TRUE).g
  IN F[k]

actingId(g) == g.players[g.currentPlayerIndex + 1].id

\* the call of the acting seat that takes g towards play: seats in declining
\* ask to skip the round, the others enter
towardsPlay(g, declining) ==
  CASE g.gamePhase = "dealing" ->
         IF g.currentPlayerIndex + 1 \in declining
           THEN on_skip_turn(g, actingId(g)).g
           ELSE on_enter_turn(g, actingId(g)).g
    [] g.gamePhase = "exchanging" -> on_exchange_cards(g, actingId(g), <<>>).g
    [] g.gamePhase = "trump_exchanging" -> GM_exchangeTrump(g, actingId(g), SkipTrump).g
    [] OTHER -> g

\* the most seats that enter a round that is played out
MaxEntering == 2

\* the acting seat plays one of the first MaxChoices of its legal cards
MaxChoices == 2

\* calls it takes at most to bring a dealt room to play
MaxCallsToPlay == 3 * NumPlayers

startOfPlay(shuffle, declining) ==
  LET dealt == GM_startGame(allReady(joined(createGame, NumPlayers - 1), NumPlayers),
                            shuffle).g
      F[j \in 0..MaxCallsToPlay] ==
        IF j = 0 THEN dealt ELSE towardsPlay(F[j - 1], declining)
  IN F[MaxCallsToPlay]

PlayInit ==
  /\ \E shuffle \in 1..NumShuffles, declining \in SUBSET (1..NumPlayers) :
       /\ game = startOfPlay(shuffle, declining)
       /\ game.gamePhase = "playing"
       /\ enteredCount(game) <= MaxEntering
  /\ last = [op |-> "exchangeTrump", playerId |-> game.players[game.dealerIndex + 1].id,
             arg |-> SkipTrump, ok |-> TRUE]
  /\ fp = FPIdle
  /\ strayCalls = 0
  /\ pending = <<>>

\* the acting seat plays one of its legal cards
PlayLegalCard ==
  /\ game.gamePhase = "playing"
  /\ \E cardIndex \in Range(Take(GM_playableCards(game, actingId(game)), MaxChoices)) :
       /\ game' = GM_playCard(game, actingId(game), cardIndex).g
       /\ last' = [op |-> "playCard", playerId |-> actingId(game), arg |-> cardIndex,
                   ok |-> GM_playCard(game, actingId(game), cardIndex).ok]
       /\ UNCHANGED <<fp, strayCalls, pending>>

SpecPlay == PlayInit /\ [][PlayLegalCard]_vars /\ WF_vars(PlayLegalCard)

\* C27: from the start of play, while the phase is playing the acting seat
\* has a legal card to play, so that seats which keep playing a legal card
\* take the room to HousesPerRound complete houses and out of phase playing
RoundCompletes ==
  game.gamePhase = "playing" => GM_playableCards(game, actingId(game)) # <<>>

(***************************************************************************)
(* The end of dealing.                                                     *)
(***************************************************************************)
SomeUndecided(g) == \E k \in 1..Len(g.players) : g.players[k].enteredRound = Undecided

\* C28: a room in phase dealing has an undecided seat, and the step in which
\* the last undecided seat becomes entered or declined, the auto-entry
\* override included, moves the phase to exchanging
DealingEndsWithLastDecision ==
  [][/\ game'.gamePhase = "dealing" => SomeUndecided(game')
     /\ (game.gamePhase = "dealing" /\ SomeUndecided(game) /\ ~SomeUndecided(game'))
          => game'.gamePhase = "exchanging"]_vars

(***************************************************************************)
(* The resolution of a trick.                                              *)
(***************************************************************************)
\* the step is an accepted playCard that fills the current house
FillsHouse ==
  /\ last'.op = "playCard"
  /\ last'.ok
  /\ Len(game.currentHouse) + 1 = enteredCount(game)

\* C29: an accepted playCard that makes the current house as long as the
\* number of entered seats adds one completed house, one to the housesBuilt
\* of its winner, makes the winner the acting seat, empties the current
\* house and leaves the lead suit undefined
TrickResolution ==
  [][FillsHouse =>
       /\ Len(game'.houses) = Len(game.houses) + 1
       /\ LET w == findPlayerIndex(game', game'.houses[Len(game'.houses)].winner) + 1
          IN /\ game'.players[w].housesBuilt = game.players[w].housesBuilt + 1
             /\ game'.currentPlayerIndex = w - 1
       /\ game'.currentHouse = <<>>
       /\ game'.leadSuit = Null]_vars

\* what the program does keep: the house is recorded, credited to its winner
\* and the winner acts next
TrickRecorded ==
  [][FillsHouse =>
       /\ Len(game'.houses) = Len(game.houses) + 1
       /\ LET w == findPlayerIndex(game', game'.houses[Len(game'.houses)].winner) + 1
          IN /\ game'.players[w].housesBuilt = game.players[w].housesBuilt + 1
             /\ game'.currentPlayerIndex = w - 1]_vars

(***************************************************************************)
(* The exchange phase on its own.  The room is a table of connected        *)
(* players whose entry decisions have just ended dealing; from there any   *)
(* player may ask for an exchange, or send a late skip_turn, at any time.  *)
(***************************************************************************)
startOfExchange(shuffle, declining) ==
  LET dealt == GM_startGame(allReady(joined(createGame, NumPlayers - 1), NumPlayers),
                            shuffle).g
      F[j \in 0..NumPlayers] ==
        IF j = 0 THEN dealt
        ELSE IF F[j - 1].gamePhase = "dealing" THEN towardsPlay(F[j - 1], declining)
        ELSE F[j - 1]
  IN F[NumPlayers]

ExchangeInit ==
  /\ \E shuffle \in 1..NumShuffles, declining \in SUBSET (1..NumPlayers) :
       /\ game = startOfExchange(shuffle, declining)
       /\ game.gamePhase = "exchanging"
       /\ enteredCount(game) <= MaxEntering
  /\ last = [op |-> "decision", playerId |-> game.players[game.dealerIndex + 1].id,
             arg |-> Null, ok |-> TRUE]
  /\ fp = FPIdle
  /\ strayCalls = 0
  /\ pending = <<>>

PlayerExchangeCards ==
  /\ game.gamePhase = "exchanging"
  /\ \E playerId \in HumanIds(game), cardIndices \in ExchangeChoices :
       HandlerCall("exchangeCards", playerId, cardIndices,
                   on_exchange_cards(game, playerId, cardIndices), <<>>)

\* a skip_turn sent after dealing, while at most MaxEntering seats have entered
LateSkipTurn ==
  /\ game.gamePhase = "exchanging"
  /\ enteredCount(game) <= MaxEntering
  /\ HumanSkipTurn

ExchangeNext ==
  \/ PlayerExchangeCards
  \/ LateSkipTurn

SpecExchange == ExchangeInit /\ [][ExchangeNext]_vars

\* every entered seat of g has exchanged, or the tree of g is empty
ExchangeOver(g) ==
  \/ \A k \in 1..Len(g.players) :
       g.players[k].enteredRound = Entered => g.players[k].hasExchanged
  \/ Len(g.tree) = 0

\* the seat (0-based) of the first entered seat after the dealer of g
FirstEnteredAfterDealer(g) ==
  LET n == Len(g.players)
      seatAt(d) == (g.dealerIndex + d) % n
      steps == {d \in 1..n : g.players[seatAt(d) + 1].enteredRound = Entered}
  IN seatAt(CHOOSE d \in steps : \A e \in steps : d <= e)

OtherHands(g, k) == [j \in (1..Len(g.players)) \ {k} |-> g.players[j].hand]

\* what exchangeTrump(playerId, cardIndex) does to the room as it is now
TrumpExchangeCall(playerId, cardIndex) ==
  LET r == GM_exchangeTrump(game, playerId, cardIndex)
      d == game.dealerIndex + 1
      hand == game.players[d].hand
  IN IF r.ok
       THEN /\ playerId = game.players[d].id
            /\ game.players[d].enteredRound = Entered
            /\ r.g.gamePhase = "playing"
            /\ OtherHands(r.g, d) = OtherHands(game, d)
            /\ IF cardIndex = SkipTrump THEN r.g.players[d].hand = hand
               ELSE /\ cardIndex \in 0..(Len(hand) - 1)
                    /\ r.g.players[d].hand = [hand EXCEPT ![cardIndex + 1] = game.trumpCard]
       ELSE r.g = game

\* C31: in trump_exchanging only the dealer seat, and only if it entered, has
\* an exchangeTrump accepted; an accepted call puts the trump card at the
\* chosen index of the dealer's hand, or for the skip value leaves the hand as
\* it is, and moves the phase to playing; the call of any other seat is
\* rejected and changes nothing
TrumpExchangeContract ==
  game.gamePhase = "trump_exchanging" =>
    \A playerId \in PlayerIds(game), cardIndex \in TrumpChoices :
      TrumpExchangeCall(playerId, cardIndex)

\* the dealer has taken the trump card for the first card of its hand and
\* play has started
TrumpExchangeContractWitness ==
  /\ last.op = "exchangeTrump"
  /\ last.ok
  /\ last.arg = 0
  /\ game.gamePhase = "playing"
  /\ game.players[game.dealerIndex + 1].hand[1] = game.trumpCard

(***************************************************************************)
(* The effect of an exchange.                                              *)
(***************************************************************************)
\* lists of distinct indices into a hand of CardsPerPlayer cards
ExchangeRequests ==
  {<<>>, <<4, 2, 0>>, <<3, 1, 4, 0>>, <<0, 1, 2, 3, 4>>}
    \cup {<<a>> : a \in 0..(CardsPerPlayer - 1)}
    \cup {q \in (0..(CardsPerPlayer - 1)) \X (0..(CardsPerPlayer - 1)) : q[1] # q[2]}

\* what exchangeCards(playerId, cardIndices) does to the room as it is now
ExchangeCall(playerId, cardIndices) ==
  LET r == exchangeCardsBy(game, playerId, cardIndices)
      i == findPlayerIndex(game, playerId) + 1
      k == Len(cardIndices)
      hand == game.players[i].hand
      given == {hand[cardIndices[j] + 1] : j \in 1..k}
  IN /\ k > Len(game.tree) => ~r.ok
     /\ r.ok =>
          /\ Range(r.g.players[i].hand) = (Range(hand) \ given) \cup Range(Take(game.tree, k))
          /\ Len(r.g.players[i].hand) = CardsPerPlayer
          /\ r.g.tree = Drop(game.tree, k)
          /\ r.g.players[i].hasExchanged
          /\ OtherHands(r.g, i) = OtherHands(game, i)
          /\ k = 0 => r.g.players[i].hand = hand

\* C32: an accepted exchangeCards with k distinct indices into the hand takes
\* exactly those k cards out of the hand, puts exactly the first k cards of
\* the tree into it, shortens the tree by k and leaves the hand at
\* CardsPerPlayer cards; with k = 0 hand and tree stay as they are and the
\* seat is marked as having exchanged; a request for more cards than the tree
\* holds is rejected
ExchangeEffect ==
  game.gamePhase = "exchanging" =>
    \A playerId \in PlayerIds(game), cardIndices \in ExchangeRequests :
      ExchangeCall(playerId, cardIndices)

\* a seat has exchanged two cards after another seat has drawn from the tree
ExchangeEffectWitness ==
  /\ last.op = "exchangeCards"
  /\ last.ok
  /\ last.arg = <<1, 3>>
  /\ Len(game.tree) = TreeSize - 3
  /\ game.gamePhase = "exchanging"

(***************************************************************************)
(* The tree during play.                                                   *)
(***************************************************************************)
\* C33: in phase playing no step takes a card from the tree: every playCard
\* leaves the tree as it is
NoBackfillInPlay ==
  [][game.gamePhase = "playing" => game'.tree = game.tree]_vars

(***************************************************************************)
(* The turn order of play.                                                 *)
(***************************************************************************)
\* the seat (0-based) of the first entered seat of g after seat s in cyclic
\* order
NextEnteredAfter(g, s) ==
  LET n == Len(g.players)
      seatAt(d) == (s + d) % n
      steps == {d \in 1..n : g.players[seatAt(d) + 1].enteredRound = Entered}
  IN seatAt(CHOOSE d \in steps : \A e \in steps : d <= e)

\* the number of cards of the current house of g that seat k (1-based) played
CardsInHouse(g, k) ==
  Cardinality({j \in 1..Len(g.currentHouse) : g.currentHouse[j].playerId = g.players[k].id})

\* an accepted playCard that leaves the trick open passes the turn to the
\* next entered seat after the player
TurnPassesToNextEntered ==
  [][(/\ last'.op = "playCard"
      /\ last'.ok
      /\ Len(game'.currentHouse) # enteredCount(game'))
       => game'.currentPlayerIndex = NextEnteredAfter(game, game.currentPlayerIndex)]_vars

\* C34: an accepted playCard that does not complete the trick makes the next
\* entered seat after the player, in cyclic seat order, the acting seat, and
\* no seat has more than one card in a trick
PlayingTurnOrder ==
  [][/\ (/\ last'.op = "playCard"
         /\ last'.ok
         /\ Len(game'.currentHouse) # enteredCount(game'))
          => game'.currentPlayerIndex = NextEnteredAfter(game, game.currentPlayerIndex)
     /\ game'.gamePhase = "playing"
          => \A k \in 1..Len(game'.players) : CardsInHouse(game', k) <= 1]_vars

(***************************************************************************)
(* Progress of the bots.  The start timer and the thinking delays run out, *)
(* so StartGame and BotDecision are taken when they stay possible; nothing *)
(* obliges a connected player to send anything.                            *)
(***************************************************************************)
SpecBotsFair == SpecBots /\ WF_vars(StartGame) /\ WF_vars(BotDecision)

BotIds == {createGame.players[k].id : k \in 2..NumPlayers}

\* the bot with id b is the acting seat in a phase in which bots act
BotActs(b) ==
  /\ game.gamePhase \in BotPhases
  /\ game.currentPlayerIndex < Len(game.players)
  /\ game.players[game.currentPlayerIndex + 1].isBot
  /\ game.players[game.currentPlayerIndex + 1].id = b

\* the last call applied to the room was a decision of the bot with id b
BotApplied(b) ==
  /\ last.playerId = b
  /\ last.op \in {"enterTurn", "skipTurn", "exchangeCards", "exchangeTrump", "playCard"}

\* C35: whenever a bot is the acting seat in phase dealing, exchanging,
\* trump_exchanging or playing, a decision of that bot is eventually applied
BotProgress ==
  \A b \in BotIds : BotActs(b) ~> BotApplied(b)

(***************************************************************************)
(* The deal.                                                               *)
(***************************************************************************)
\* the cards of g that are in a hand, in the tree or the trump card
CardsOnTable(g) ==
  UNION {Range(g.players[k].hand) : k \in 1..Len(g.players)}
    \cup Range(g.tree) \cup {g.trumpCard}

\* C36: the deck has 32 distinct cards, 4 suits by the ranks 7 to A, and the
\* step from ready to dealing leaves each of the 5 seats with 5 cards, one
\* trump card and a tree of the 6 other cards, the seat after the dealer
\* acting and every seat undecided
DealShape ==
  [][(game.gamePhase = "ready" /\ game'.gamePhase = "dealing") =>
       /\ Len(createDeck) = 32
       /\ Range(createDeck) = {Card(Suits[s], Ranks[r]) : s \in 1..4, r \in 1..8}
       /\ Len(game'.players) = 5
       /\ \A k \in 1..5 : Len(game'.players[k].hand) = 5
       /\ game'.trumpCard \in Range(createDeck)
       /\ Len(game'.tree) = 6
       /\ CardsOnTable(game') = Range(createDeck)
       /\ game'.currentPlayerIndex = (game'.dealerIndex + 1) % 5
       /\ \A k \in 1..5 : game'.players[k].enteredRound = Undecided]_vars

\* the second round has been dealt
DealShapeWitness ==
  /\ last.op = "startGame"
  /\ game.gamePhase = "dealing"
  /\ game.roundNumber = 2
  /\ Len(game.tree) = 6

(***************************************************************************)
(* The seat indices of the room.                                           *)
(***************************************************************************)
ValidSeatIndex(g, i) == 0 <= i /\ i < Len(g.players)

\* C37: in every reachable state currentPlayerIndex and dealerIndex are valid
\* seat indices, 0 <= index < number of seats, also after the skip_turn
\* handler of a decline that ends dealing and after removePlayer
SeatIndicesInRange ==
  /\ ValidSeatIndex(game, game.currentPlayerIndex)
  /\ ValidSeatIndex(game, game.dealerIndex)

\* the same for rooms that still have a seat
SeatIndicesInRangeWhileSeated ==
  game.players # <<>> => SeatIndicesInRange

(***************************************************************************)
(* The legal cards of the acting seat during play.                         *)
(***************************************************************************)
ActingHand(g) == g.players[g.currentPlayerIndex + 1].hand

\* C38: in every playing state where the hand of the acting seat is not
\* empty, playableCards of the acting seat is a non-empty list without
\* duplicates of valid indices into that hand, and playCard of the acting
\* seat with any of them is accepted
NoDeadEndInPlay ==
  (game.gamePhase = "playing" /\ ActingHand(game) # <<>>) =>
    LET legal == GM_playableCards(game, actingId(game))
    IN /\ legal # <<>>
       /\ \A j, k \in 1..Len(legal) : j # k => legal[j] # legal[k]
       /\ \A k \in 1..Len(legal) : legal[k] >= 0 /\ legal[k] < Len(ActingHand(game))
       /\ \A k \in 1..Len(legal) : GM_playCard(game, actingId(game), legal[k]).ok

(***************************************************************************)
(* Play in which a connected player may drop out: the disconnect handler   *)
(* calls removePlayer whatever the phase is.                               *)
(***************************************************************************)
\* the most players that disconnect during play
MaxDisconnects == 1

\* a player disconnects before the LeaveByCard-th card of the round is played
LeaveByCard == 1

PlayerDisconnects ==
  /\ game.gamePhase = "playing"
  /\ NumPlayers - Len(game.players) < MaxDisconnects
  /\ Len(game.currentHouse) < LeaveByCard
  /\ \E playerId \in HumanIds(game) :
       /\ game' = GM_removePlayer(game, playerId).g
       /\ last' = [op |-> "removePlayer", playerId |-> playerId, arg |-> Null,
                   ok |-> GM_removePlayer(game, playerId).ok]
       /\ UNCHANGED <<fp, strayCalls, pending>>

PlayLeaveNext ==
  \/ PlayLegalCard
  \/ PlayerDisconnects

SpecPlayLeave == PlayInit /\ [][PlayLeaveNext]_vars

(***************************************************************************)
(* The start of the deal.                                                  *)
(***************************************************************************)
EverySeatReady(g) == \A k \in 1..Len(g.players) : g.players[k].isReady

\* C39: the phase moves from ready to dealing only in a state where every
\* seat has isReady = TRUE, also when a player has joined in the seat of a
\* ready bot while the phase was ready and the start timer was pending
DealOnlyWhenAllReady ==
  [][(game.gamePhase = "ready" /\ game'.gamePhase = "dealing") => EverySeatReady(game)]_vars

(***************************************************************************)
(* The exchanges of one seat.                                              *)
(***************************************************************************)
\* the step is an exchangeCards of a seat that has exchanged before
ExchangesAgain ==
  /\ last'.op = "exchangeCards"
  /\ findPlayerIndex(game, last'.playerId) # -1
  /\ game.players[findPlayerIndex(game, last'.playerId) + 1].hasExchanged

\* C40: within a round the exchangeCards of an entered seat is accepted at
\* most once: an exchangeCards of a seat whose hasExchanged is already TRUE
\* is rejected and takes no card from the tree
OneExchangePerSeat ==
  [][ExchangesAgain => (~last'.ok /\ game'.tree = game.tree)]_vars

====
